---------------------------- MODULE Spec2Model ----------------------------
(***************************************************************************)
(* AviFlux: weather aggregation and flight-risk scoring engine.            *)
(*                                                                         *)
(* The module models, from the Python sources under src/backend:           *)
(*   - the risk scoring functions of flight_safety_system.py and           *)
(*     ultimate_aviation_system.py                    (SpecScore),         *)
(*   - the airport lookups of the route and risk entry points              *)
(*                                                    (SpecRoute),         *)
(*   - RealTimeFlightTracker and its monitoring threads                    *)
(*                                       (SpecTracker, SpecCancel),        *)
(*   - RealTimeFlightMonitor of ultimate_aviation_system.py                *)
(*                                                    (SpecMonitor),       *)
(*   - the weather aggregation of get_multi_source_weather                 *)
(*                                                    (SpecAggregate),     *)
(*   - conduct_safety_assessment run twice on one input                    *)
(*                                                    (SpecRescore),       *)
(*   - the multi-leg routes of the route service      (SpecMultiLeg),      *)
(*   - the route weather analysis and nearest-airport lookups              *)
(*                                                    (SpecRouteWeather),  *)
(*   - the waypoints of a tracked flight              (SpecWaypoints),     *)
(*   - two flights started on one tracker             (SpecTwoFlights),    *)
(*   - GET /api/weather/{airport_code}                (SpecGetWeather),    *)
(*   - WeatherService.generate_weather_briefing       (SpecBriefing).      *)
(*                                                                         *)
(* Units.  Python floats are scaled to integers: visibility in tenths of   *)
(* a statute mile, pressure in hundredths of inHg, risk fractions in       *)
(* hundredths, coordinates in 1e-4 degree, time in seconds.  Python dicts  *)
(* are functions from key strings; d.get(k, x) is Get(d, k, x), so that a  *)
(* key one function writes and another does not read stays visible.        *)
(* Python strings that are searched with `in` are sequences of characters. *)
(***************************************************************************)
EXTENDS Integers, Sequences, FiniteSets, TLC

VARIABLES
    scoreCall,      \* the scoring call last made: the function and its arguments
    scoreRet,       \* what that call returned
    routeCall,      \* the route / risk entry point last called, with its codes
    routeRet,       \* what it returned or raised
    now,            \* wall clock, seconds
    records,        \* RealTimeFlightTracker: the flight_info dicts ever created
    active_flights, \* RealTimeFlightTracker.active_flights: flight id -> dict
    pc,             \* position of each monitoring thread
    sleep_until,    \* wake-up time of each sleeping monitoring thread
    um_flights,     \* RealTimeFlightMonitor.active_flights
    um_ret,         \* what get_flight_update last returned
    msw,            \* get_multi_source_weather: the call in progress
    mswRet          \* what get_multi_source_weather last returned

scoreVars   == <<scoreCall, scoreRet>>
routeVars   == <<routeCall, routeRet>>
trackerVars == <<records, active_flights, pc, sleep_until>>
monitorVars == <<um_flights, um_ret>>
aggregateVars == <<msw, mswRet>>
vars == <<scoreCall, scoreRet, routeCall, routeRet, now, records,
          active_flights, pc, sleep_until, um_flights, um_ret, msw, mswRet>>

\* What the calls of one component leave alone.
exceptScore   == <<routeVars, now, trackerVars, monitorVars, aggregateVars>>
exceptRoute   == <<scoreVars, now, trackerVars, monitorVars, aggregateVars>>
exceptTracker == <<scoreVars, routeVars, monitorVars, aggregateVars>>
exceptMonitor == <<scoreVars, routeVars, trackerVars, aggregateVars>>
exceptAggregate == <<scoreVars, routeVars, now, trackerVars, monitorVars>>

---------------------------------------------------------------------------
(* Python helpers *)

\* dict.get(k, default)
Get(d, k, default) == IF k \in DOMAIN d THEN d[k] ELSE default

\* min(a, b)
Min(a, b) == IF a <= b THEN a ELSE b

\* sub in s, for strings as sequences of characters
Contains(sub, s) ==
    \E i \in 1..(Len(s) - Len(sub) + 1) : SubSeq(s, i, i + Len(sub) - 1) = sub

\* any(h in s for h in hazards)
AnyIn(hazards, s) == \E i \in 1..Len(hazards) : Contains(hazards[i], s)

RECURSIVE SumSeq(_)
SumSeq(s) == IF s = <<>> THEN 0 ELSE Head(s) + SumSeq(Tail(s))

\* list.extend
Extend(old, new) == old \o new

---------------------------------------------------------------------------
(* flight_safety_system.py: FlightSafetyAssessment, risk scoring *)

TS      == <<"T", "S">>
TSRA    == <<"T", "S", "R", "A">>
FZRA    == <<"F", "Z", "R", "A">>
SN      == <<"S", "N">>
BLSN    == <<"B", "L", "S", "N">>
FG      == <<"F", "G">>
RA      == <<"R", "A">>
TORNADO == <<"T", "O", "R", "N", "A", "D", "O">>

\* self.operational_limits
maximum_wind_speed == 35
minimum_visibility == 30
hazardous_weather  == <<TS, TSRA, FZRA, SN, BLSN, FG, TORNADO>>

\* One `if cond: identified_risks.append(text); risk_score += points`.
Factor(cond, text, points) ==
    IF cond THEN [risks |-> <<text>>, score |-> points]
            ELSE [risks |-> <<>>,     score |-> 0]

\* The route branch of _evaluate_safety_risks: HIGH appends a risk and adds
\* 38, MODERATE adds 18 and appends nothing.
RouteFactor(route_info) ==
    IF route_info["route_risk_level"] = "HIGH"
    THEN [risks |-> <<"High risk weather conditions along route">>, score |-> 38]
    ELSE IF route_info["route_risk_level"] = "MODERATE"
    THEN [risks |-> <<>>, score |-> 18]
    ELSE [risks |-> <<>>, score |-> 0]

RECURSIVE Accumulate(_)
Accumulate(fs) ==
    IF fs = <<>> THEN [risks |-> <<>>, score |-> 0]
    ELSE LET rest == Accumulate(Tail(fs))
         IN  [risks |-> Head(fs).risks \o rest.risks,
              score |-> Head(fs).score + rest.score]

\* The classification of _evaluate_safety_risks
TraditionalClassification(risk_score) ==
    IF risk_score <= 22 THEN "SAFE"
    ELSE IF risk_score <= 55 THEN "CAUTION"
    ELSE "UNSAFE"

TraditionalRecommendation(risk_score) ==
    IF risk_score <= 22
    THEN "Flight operations authorized - conditions within normal parameters"
    ELSE IF risk_score <= 55
    THEN "Exercise enhanced vigilance - monitor conditions continuously"
    ELSE "Flight operations not recommended - significant weather hazards present"

evaluate_safety_risks(dep_weather, arr_weather, route_info) ==
    LET acc == Accumulate(<<
            Factor(dep_weather["wind_speed_knots"] > maximum_wind_speed,
                   "Departure winds exceed operational limits", 28),
            Factor(dep_weather["visibility_statute_miles"] < minimum_visibility,
                   "Departure visibility below minimums", 32),
            Factor(AnyIn(hazardous_weather, dep_weather["weather_phenomena"]),
                   "Hazardous departure weather", 22),
            Factor(arr_weather["wind_speed_knots"] > maximum_wind_speed,
                   "Arrival winds exceed operational limits", 28),
            Factor(arr_weather["visibility_statute_miles"] < minimum_visibility,
                   "Arrival visibility below minimums", 32),
            RouteFactor(route_info) >>)
    IN  [safety_classification      |-> TraditionalClassification(acc.score),
         composite_risk_score       |-> acc.score,
         operational_recommendation |-> TraditionalRecommendation(acc.score),
         identified_hazards         |-> acc.risks]

\* if x > hi: risks.append(f"{text_hi} {location}"); score += p_hi
\* elif x > lo: risks.append(f"{text_lo} {location}"); score += p_lo
Tiered(x, location, hi, text_hi, p_hi, lo, text_lo, p_lo) ==
    IF x > hi
    THEN [risks |-> <<[text |-> text_hi, location |-> location]>>, score |-> p_hi]
    ELSE IF x > lo
    THEN [risks |-> <<[text |-> text_lo, location |-> location]>>, score |-> p_lo]
    ELSE [risks |-> <<>>, score |-> 0]

assess_multi_source_risks(weather_data, location) ==
    Accumulate(<<
        Tiered(Get(weather_data, "integrated_risk_score", 0), location,
               70, "High integrated risk", 25,
               50, "Moderate integrated risk", 15),
        Tiered(Get(weather_data, "turbulence_risk", 0), location,
               60, "Severe turbulence reported", 20,
               40, "Moderate turbulence reported", 12),
        Tiered(Get(weather_data, "icing_risk", 0), location,
               60, "Severe icing conditions reported", 22,
               40, "Moderate icing conditions reported", 14),
        Tiered(Get(weather_data, "convective_risk", 0), location,
               60, "Severe convective activity", 30,
               30, "Convective activity", 18),
        Tiered(Get(weather_data, "total_advisories", 0), location,
               2, "Multiple weather advisories active", 15,
               0, "Weather advisories active", 8) >>)

\* The classification of _evaluate_enhanced_safety_risks, made on the sum
\* before it is capped.
EnhancedClassification(risk_score) ==
    IF risk_score <= 25 THEN "LOW_RISK"
    ELSE IF risk_score <= 55 THEN "MODERATE_RISK"
    ELSE IF risk_score <= 80 THEN "HIGH_RISK"
    ELSE "EXTREME_RISK"

EnhancedRecommendation(risk_score) ==
    IF risk_score <= 25 THEN "CLEARED FOR TAKEOFF"
    ELSE IF risk_score <= 55 THEN "CAUTION ADVISED"
    ELSE IF risk_score <= 80 THEN "DELAY RECOMMENDED"
    ELSE "NO-GO"

MultiSource(weather_data, location) ==
    IF Get(weather_data, "multi_source_enhanced", FALSE)
    THEN assess_multi_source_risks(weather_data, location)
    ELSE [risks |-> <<>>, score |-> 0]

evaluate_enhanced_safety_risks(dep_weather, arr_weather, route_info) ==
    LET traditional_assessment ==
            evaluate_safety_risks(dep_weather, arr_weather, route_info)
        identified_risks == Get(traditional_assessment, "identified_risks", <<>>)
        dep == MultiSource(dep_weather, "departure")
        arr == MultiSource(arr_weather, "arrival")
        multi_source_risks == dep.risks \o arr.risks
        risk_score == Get(traditional_assessment, "risk_score", 0)
                        + dep.score + arr.score
    IN  [identified_risks      |-> identified_risks,
         multi_source_risks    |-> multi_source_risks,
         risk_score            |-> Min(risk_score, 100),
         safety_classification |-> EnhancedClassification(risk_score),
         flight_recommendation |-> EnhancedRecommendation(risk_score),
         multi_source_enhanced |-> multi_source_risks # <<>>]

---------------------------------------------------------------------------
(* flight_safety_system.py: the weather dicts the scoring functions receive *)

\* _process_comprehensive_weather_data: the dict built from the multi-source
\* record (the keys the scoring and alert code can read).
process_comprehensive_weather_data(cc, risk_assessment, advisories) ==
    [temperature_celsius      |-> Get(cc, "temperature_celsius", 15),
     wind_speed_knots         |-> Get(cc, "wind_speed_knots", 10),
     wind_direction_degrees   |-> Get(cc, "wind_direction_degrees", 270),
     visibility_statute_miles |-> Get(cc, "visibility_statute_miles", 100),
     barometric_pressure_inhg |-> Get(cc, "altimeter_inhg", 2992),
     weather_phenomena        |-> Get(cc, "weather_phenomena", <<>>),
     flight_category          |-> Get(cc, "flight_category", "VFR"),
     integrated_risk_score    |-> Get(risk_assessment, "overall_risk_score", 0),
     turbulence_risk          |-> Get(risk_assessment, "turbulence_risk", 0),
     icing_risk               |-> Get(risk_assessment, "icing_risk", 0),
     convective_risk          |-> Get(risk_assessment, "convective_risk", 0),
     total_advisories         |-> Get(advisories, "active_advisories_count", 0),
     multi_source_enhanced    |-> TRUE]

\* _generate_realistic_weather: the dict returned, from the values drawn.
generate_realistic_weather(temperature, wind, visibility, condition, category) ==
    [temperature_celsius      |-> temperature,
     wind_speed_knots         |-> wind,
     wind_direction_degrees   |-> 180,
     visibility_statute_miles |-> visibility,
     barometric_pressure_inhg |-> 2992,
     weather_phenomena        |-> condition,
     flight_category          |-> category]

\* _get_standard_weather_conditions
get_standard_weather_conditions ==
    [temperature_celsius      |-> 18,
     wind_speed_knots         |-> 12,
     wind_direction_degrees   |-> 280,
     visibility_statute_miles |-> 100,
     barometric_pressure_inhg |-> 2992,
     weather_phenomena        |-> <<>>,
     flight_category          |-> "VFR"]

---------------------------------------------------------------------------
(* ultimate_aviation_system.py: calculate_comprehensive_risk_score *)

\* The wind tiers with the points of the two tiers exchanged
exchanged_wind_tiers(wind_speed) ==
    IF wind_speed > 25 THEN 15 ELSE IF wind_speed > 15 THEN 30 ELSE 0

\* wind_speed > 25 -> 30, > 15 -> 15
WindRisk(wind_speed) ==
    IF wind_speed > 25 THEN 30 ELSE IF wind_speed > 15 THEN 15 ELSE 0

\* visibility < 3 -> 25, < 5 -> 10
VisibilityRisk(visibility) ==
    IF visibility < 30 THEN 25 ELSE IF visibility < 50 THEN 10 ELSE 0

WeatherRisk(flight_cat) ==
    IF flight_cat = "LIFR" THEN 25
    ELSE IF flight_cat = "IFR" THEN 15
    ELSE IF flight_cat = "MVFR" THEN 8
    ELSE 0

\* pressure < 29.0 or pressure > 31.0 -> 10
PressureRisk(pressure) == IF pressure < 2900 \/ pressure > 3100 THEN 10 ELSE 0

\* min(turb_risk * 10 + ice_risk * 10, 20), where the two values are what
\* _generate_ml_predictions stored under 'turbulence_risk' and 'icing_risk':
\* the strings 'LOW' / 'MODERATE' / 'HIGH'.  str * 10 is a str; str + int and
\* min(str, int) raise TypeError.  With neither key the sum is 0.
MlRisk(ml_predictions) ==
    IF DOMAIN ml_predictions = {} THEN [raised |-> "", value |-> 0]
    ELSE IF "turbulence_risk" \in DOMAIN ml_predictions
            \/ "icing_risk" \in DOMAIN ml_predictions
    THEN [raised |-> "TypeError", value |-> 0]
    ELSE [raised |-> "", value |-> Min(0 * 10 + 0 * 10, 20)]

Abs(x) == IF x < 0 THEN -x ELSE x

\* if curr_temp and hist_temp and abs(curr_temp - hist_temp) > 20
HistoricalRisk(weather_data) ==
    LET historical == Get(weather_data, "historical_context", <<>>)
        curr_temp  == Get(weather_data, "temperature_celsius", 0)
        hist_temp  == Get(historical, "avg_temperature", 0)
    IN  IF DOMAIN historical # {} /\ curr_temp # 0 /\ hist_temp # 0
           /\ Abs(curr_temp - hist_temp) > 20
        THEN 5 ELSE 0

classify_risk(risk_score) ==
    IF risk_score <= 30 THEN "LOW_RISK"
    ELSE IF risk_score <= 50 THEN "MODERATE_RISK"
    ELSE IF risk_score <= 70 THEN "HIGH_RISK"
    ELSE "EXTREME_RISK"

get_flight_recommendation(risk_score) ==
    IF risk_score <= 30 THEN "CLEARED FOR TAKEOFF"
    ELSE IF risk_score <= 50 THEN "CAUTION ADVISED"
    ELSE IF risk_score <= 70 THEN "DELAY RECOMMENDED"
    ELSE "DO NOT FLY"

FactorNames == <<"base_risk", "wind_risk", "visibility_risk", "weather_risk",
                 "pressure_risk", "ml_risk", "historical_risk">>

calculate_comprehensive_risk_score(weather_data) ==
    LET ml == MlRisk(Get(weather_data, "ml_predictions", <<>>))
        risk_factors ==
            [base_risk       |-> 20,
             wind_risk       |-> WindRisk(Get(weather_data, "wind_speed_knots", 0)),
             visibility_risk |-> VisibilityRisk(
                                   Get(weather_data, "visibility_statute_miles", 100)),
             weather_risk    |-> WeatherRisk(Get(weather_data, "flight_category", "VFR")),
             pressure_risk   |-> PressureRisk(
                                   Get(weather_data, "barometric_pressure_inhg", 3000)),
             ml_risk         |-> ml.value,
             historical_risk |-> HistoricalRisk(weather_data)]
        total_risk == Min(SumSeq([i \in 1..Len(FactorNames) |->
                                    risk_factors[FactorNames[i]]]), 100)
    IN  IF ml.raised # "" THEN [raised |-> ml.raised]
        ELSE [raised                |-> "",
              total_risk_score      |-> total_risk,
              risk_breakdown        |-> risk_factors,
              risk_classification   |-> classify_risk(total_risk),
              flight_recommendation |-> get_flight_recommendation(total_risk)]

---------------------------------------------------------------------------
(* Inputs of the scoring functions *)

EmptyDict == [k \in {} |-> 0]

\* Values on both sides of every threshold the scoring code tests.
Winds          == {35, 36}
Visibilities   == {29, 30}
PhenomenaVals  == {<<>>, TSRA}
RiskFractions  == [overall_risk_score : {50, 60, 80},
                   turbulence_risk    : {40, 50, 70},
                   icing_risk         : {40, 50, 70},
                   convective_risk    : {30, 50, 70}]
RiskExtremes   == {[overall_risk_score |-> 0, turbulence_risk |-> 0,
                    icing_risk |-> 0, convective_risk |-> 0, advisories |-> 0],
                   [overall_risk_score |-> 80, turbulence_risk |-> 70,
                    icing_risk |-> 70, convective_risk |-> 70, advisories |-> 3]}
AdvisoryCounts == {0, 2, 3}

\* 'current_conditions' of a multi-source record
CurrentConditions ==
    {[temperature_celsius |-> 15, wind_speed_knots |-> w,
      visibility_statute_miles |-> v, weather_phenomena |-> p,
      flight_category |-> "VFR"] :
        w \in Winds, v \in Visibilities, p \in PhenomenaVals}

\* What obtain_current_weather returns when every source failed.
FallbackSnapshots ==
    {get_standard_weather_conditions,
     generate_realistic_weather(12, 20, 25, FG, "IFR")}

\* Snapshots whose multi-source risk fields trigger nothing.
CoreSnapshots ==
    FallbackSnapshots \cup
    {process_comprehensive_weather_data(cc, EmptyDict, EmptyDict) :
        cc \in CurrentConditions}

DepSnapshots ==
    FallbackSnapshots \cup
    {process_comprehensive_weather_data(cc, ra, [active_advisories_count |-> n]) :
        cc \in CurrentConditions, ra \in RiskFractions, n \in AdvisoryCounts}

ArrSnapshots ==
    FallbackSnapshots \cup
    {process_comprehensive_weather_data(
         cc, ra, [active_advisories_count |-> ra.advisories]) :
        cc \in CurrentConditions, ra \in RiskExtremes}

\* 'route_assessment' as analyze_flight_route returns it
RouteInfos == {[route_risk_level |-> l] : l \in {"LOW", "MODERATE", "HIGH"}}

\* ml_predictions as _generate_ml_predictions returns it: {} without models,
\* else the keys of the predictors that answered.
MlPredictions ==
    {EmptyDict,
     [overall_flight_safety |-> "LOW"],
     [overall_flight_safety |-> "LOW", turbulence_risk |-> "HIGH"],
     [overall_flight_safety |-> "LOW", turbulence_risk |-> "LOW",
      icing_risk |-> "MODERATE"]}

\* One airport's dict of get_multi_source_weather.
MultiSourceWeather(w, v, c, p, t, ml, hist) ==
    [wind_speed_knots |-> w, visibility_statute_miles |-> v,
     flight_category |-> c, barometric_pressure_inhg |-> p,
     temperature_celsius |-> t, ml_predictions |-> ml]
    @@ (IF hist.present
        THEN [historical_context |-> [avg_temperature |-> hist.avg_temperature]]
        ELSE EmptyDict)

UltimateWeather ==
    {MultiSourceWeather(w, v, c, p, t, ml, h) :
        w \in {15, 16, 25, 26}, v \in {29, 30, 49, 50},
        c \in {"VFR", "MVFR", "IFR", "LIFR"}, p \in {2899, 3000, 3101},
        t \in {0, 15}, ml \in MlPredictions,
        h \in {[present |-> FALSE, avg_temperature |-> 0],
               [present |-> TRUE, avg_temperature |-> -10]}}

---------------------------------------------------------------------------
(* The scoring calls.  Each behaviour makes one call: the functions keep no
   state between calls. *)

EvaluateSafetyRisks ==
    /\ scoreCall.fn = "none"
    /\ \E dep \in CoreSnapshots, arr \in CoreSnapshots, route \in RouteInfos :
        /\ scoreCall' = [fn |-> "_evaluate_safety_risks", dep_weather |-> dep,
                         arr_weather |-> arr, route_info |-> route]
        /\ scoreRet' = evaluate_safety_risks(dep, arr, route)
    /\ UNCHANGED exceptScore

\* conduct_safety_assessment: the two snapshots and the route analysis are
\* obtained, scored by _evaluate_enhanced_safety_risks, and the report that
\* holds all four is returned.
ConductSafetyAssessment ==
    /\ scoreCall.fn = "none"
    /\ \E dep \in DepSnapshots, arr \in ArrSnapshots, route \in RouteInfos :
        /\ scoreCall' = [fn |-> "conduct_safety_assessment"]
        /\ scoreRet' =
             [departure_conditions |-> dep,
              arrival_conditions   |-> arr,
              route_assessment     |-> route,
              safety_evaluation    |->
                  evaluate_enhanced_safety_risks(dep, arr, route)]
    /\ UNCHANGED exceptScore

CalculateComprehensiveRiskScore ==
    /\ scoreCall.fn = "none"
    /\ \E weather_data \in UltimateWeather :
        /\ scoreCall' = [fn |-> "calculate_comprehensive_risk_score",
                         weather_data |-> weather_data]
        /\ scoreRet' = calculate_comprehensive_risk_score(weather_data)
    /\ UNCHANGED exceptScore

ClassifyRisk ==
    /\ scoreCall.fn = "none"
    /\ \E risk_score \in 0..100 :
        /\ scoreCall' = [fn |-> "_classify_risk", risk_score |-> risk_score]
        /\ scoreRet' = [risk_classification   |-> classify_risk(risk_score),
                        flight_recommendation |->
                            get_flight_recommendation(risk_score)]
    /\ UNCHANGED exceptScore

ScoreInit ==
    /\ scoreCall = [fn |-> "none"]
    /\ scoreRet = EmptyDict

ScoreNext ==
    \/ EvaluateSafetyRisks
    \/ ConductSafetyAssessment
    \/ CalculateComprehensiveRiskScore
    \/ ClassifyRisk

---------------------------------------------------------------------------
(* Specifications *)

RouteInit ==
    /\ routeCall = [fn |-> "none"]
    /\ routeRet = EmptyDict

TrackerInit ==
    /\ records = <<>>
    /\ active_flights = EmptyDict
    /\ pc = <<>>
    /\ sleep_until = <<>>

MonitorInit ==
    /\ um_flights = EmptyDict
    /\ um_ret = EmptyDict

\* No call of get_multi_source_weather is in progress.
AggregateInit ==
    /\ msw = [pc |-> "idle"]
    /\ mswRet = EmptyDict

Init ==
    /\ ScoreInit
    /\ RouteInit
    /\ now = 0
    /\ TrackerInit
    /\ MonitorInit
    /\ AggregateInit

SpecScore == Init /\ [][ScoreNext]_vars

---------------------------------------------------------------------------
(* Claims about risk scoring (SpecScore) *)

\* The documented bands: <= 30 LOW, 31..55 MODERATE, 56..80 HIGH, > 80 EXTREME.
BandOf(score) ==
    IF score <= 30 THEN "LOW"
    ELSE IF score <= 55 THEN "MODERATE"
    ELSE IF score <= 80 THEN "HIGH"
    ELSE "EXTREME"

\* The band a classification string of the code names.
BandNamed(classification) ==
    CASE classification = "LOW_RISK"      -> "LOW"
      [] classification = "MODERATE_RISK" -> "MODERATE"
      [] classification = "HIGH_RISK"     -> "HIGH"
      [] classification = "EXTREME_RISK"  -> "EXTREME"
      [] OTHER                            -> classification

ReturnedAssessment ==
    /\ scoreCall.fn = "calculate_comprehensive_risk_score"
    /\ scoreRet.raised = ""

\* C1: every total score in 0..100 is classified LOW up to 30, MODERATE from 31
\* to 55, HIGH from 56 to 80 and EXTREME from 81, by _classify_risk and by the
\* classification of each returned assessment.
C1_RiskBandsExact ==
    /\ scoreCall.fn = "_classify_risk" =>
         BandNamed(scoreRet.risk_classification) = BandOf(scoreCall.risk_score)
    /\ ReturnedAssessment =>
         BandNamed(scoreRet.risk_classification) = BandOf(scoreRet.total_risk_score)
    /\ scoreCall.fn = "conduct_safety_assessment" =>
         BandNamed(scoreRet.safety_evaluation.safety_classification)
           = BandOf(scoreRet.safety_evaluation.risk_score)

\* C2: every assessment a scoring function returns carries a total score in
\* 0..100: the sum of the factor points is capped at 100 before it is returned.
C2_ScoreWithin0To100 ==
    /\ scoreCall.fn = "_evaluate_safety_risks" =>
         scoreRet.composite_risk_score \in 0..100
    /\ scoreCall.fn = "conduct_safety_assessment" =>
         scoreRet.safety_evaluation.risk_score \in 0..100
    /\ ReturnedAssessment => scoreRet.total_risk_score \in 0..100

\* The points section 4.4 gives the wind and visibility factors of the two sides.
WindVisibilityPoints(dep_weather, arr_weather) ==
      (IF dep_weather["wind_speed_knots"] > 35 THEN 28 ELSE 0)
    + (IF arr_weather["wind_speed_knots"] > 35 THEN 28 ELSE 0)
    + (IF dep_weather["visibility_statute_miles"] < 30 THEN 32 ELSE 0)
    + (IF arr_weather["visibility_statute_miles"] < 30 THEN 32 ELSE 0)

\* C3: the 28 points of a departure wind above 35 kt, the 28 of an arrival wind
\* above 35 kt and the 32 of each visibility below 3 mi are all included in the
\* total score of the assessment conduct_safety_assessment returns.
C3_WindVisibilityIncluded ==
    scoreCall.fn = "conduct_safety_assessment" =>
        scoreRet.safety_evaluation.risk_score >=
            Min(100, WindVisibilityPoints(scoreRet.departure_conditions,
                                          scoreRet.arrival_conditions))

\* The points of a listed factor, by its text.
PointsOfText(text) ==
    CASE text = "Departure winds exceed operational limits"   -> 28
      [] text = "Departure visibility below minimums"         -> 32
      [] text = "Hazardous departure weather"                 -> 22
      [] text = "Arrival winds exceed operational limits"     -> 28
      [] text = "Arrival visibility below minimums"           -> 32
      [] text = "High risk weather conditions along route"    -> 38
      [] text = "High integrated risk"                        -> 25
      [] text = "Moderate integrated risk"                    -> 15
      [] text = "Severe turbulence reported"                  -> 20
      [] text = "Moderate turbulence reported"                -> 12
      [] text = "Severe icing conditions reported"            -> 22
      [] text = "Moderate icing conditions reported"          -> 14
      [] text = "Severe convective activity"                  -> 30
      [] text = "Convective activity"                         -> 18
      [] text = "Multiple weather advisories active"          -> 15
      [] text = "Weather advisories active"                   -> 8
      [] OTHER                                                -> 0

ListedPoints(texts) == SumSeq([i \in 1..Len(texts) |-> PointsOfText(texts[i])])

TextsOf(risks) == [i \in 1..Len(risks) |-> risks[i].text]

\* C4: the total score of a returned assessment is the capped sum of the points
\* of the factors the assessment lists: no points are added without a listed
\* factor.
C4_EveryPointListed ==
    /\ scoreCall.fn = "_evaluate_safety_risks" =>
         Min(scoreRet.composite_risk_score, 100)
           = Min(ListedPoints(scoreRet.identified_hazards), 100)
    /\ scoreCall.fn = "conduct_safety_assessment" =>
         scoreRet.safety_evaluation.risk_score
           = Min(ListedPoints(scoreRet.safety_evaluation.identified_risks)
                 + ListedPoints(TextsOf(
                       scoreRet.safety_evaluation.multi_source_risks)), 100)
    /\ ReturnedAssessment =>
         scoreRet.total_risk_score
           = Min(SumSeq([i \in 1..Len(FactorNames) |->
                           scoreRet.risk_breakdown[FactorNames[i]]]), 100)

---------------------------------------------------------------------------
(* Airport lookups of the route and risk entry points (SpecRoute) *)

\* Python None, and the empty value `not x` is true of
None == <<>>

\* A raised exception and a normal return, as the caller sees them.
ValueError(message) == [raised |-> "ValueError", message |-> message]

HTTPException(status_code, detail) ==
    [raised |-> "HTTPException", status_code |-> status_code, detail |-> detail]

Return(value) == [raised |-> "", value |-> value]

\* str.upper(), for the codes the model uses
upper(code) == IF code = "kjfk" THEN "KJFK" ELSE code

\* main.py AirportDatabase._icao_coords_map: the rows loaded from the airports
\* table, here two airports.
icao_coords_map ==
    ("KJFK" :> <<406413, -737781>>) @@ ("KLAX" :> <<339425, -1184081>>)

\* AirportDatabase.get_coords
get_coords(icao_code) == Get(icao_coords_map, upper(icao_code), None)

\* pyproj Geod.inv: the geodesic distance in metres, for the coordinates of
\* the model.
geod_inv(a, b) ==
    IF a = b THEN 0
    ELSE IF {a, b} = {<<406413, -737781>>, <<339425, -1184081>>} THEN 3983005
    ELSE IF {a, b} = {<<406413, -737781>>, <<400000, -1000000>>} THEN 2221550
    ELSE 1767358

\* round to nearest of num / den, den > 0
Round(num, den) == (2 * num + den) \div (2 * den)

\* pyproj Geod.npts: npts points strictly between the endpoints, in order.
\* Their positions are placed by equal division of the coordinate differences.
geod_npts(a, b, npts) ==
    [i \in 1..npts |->
        <<a[1] + Round((b[1] - a[1]) * i, npts + 1),
          a[2] + Round((b[2] - a[2]) * i, npts + 1)>>]

num_points == 100

\* RouteService.calculate_great_circle_route.  distance_km is kept in metres,
\* distance_nm in hundredths of a nautical mile.
calculate_great_circle_route(origin_icao, destination_icao) ==
    LET origin_coords      == get_coords(origin_icao)
        destination_coords == get_coords(destination_icao)
    IN  IF origin_coords = None
        THEN ValueError(<<"Origin airport ", origin_icao, " not found">>)
        ELSE IF destination_coords = None
        THEN ValueError(<<"Destination airport ", destination_icao, " not found">>)
        ELSE LET all_coords == <<origin_coords>>
                                 \o geod_npts(origin_coords, destination_coords,
                                              num_points - 2)
                                 \o <<destination_coords>>
                 distance_meters == geod_inv(origin_coords, destination_coords)
             IN  Return([coordinates        |-> all_coords,
                         distance_nm        |-> (distance_meters * 100) \div 1852,
                         distance_km        |-> distance_meters,
                         estimated_time_min |-> (distance_meters * 60) \div (1852 * 450),
                         total_points       |-> Len(all_coords)])

\* main.py calculate_flight_path
calculate_flight_path(origin_icao, destination_icao) ==
    LET origin_coords      == get_coords(origin_icao)
        destination_coords == get_coords(destination_icao)
    IN  IF origin_coords = None
        THEN ValueError(<<"Origin airport ", origin_icao, " not found">>)
        ELSE IF destination_coords = None
        THEN ValueError(<<"Destination airport ", destination_icao, " not found">>)
        ELSE LET all_coords == <<origin_coords>>
                                 \o geod_npts(origin_coords, destination_coords,
                                              num_points - 2)
                                 \o <<destination_coords>>
             IN  Return([coordinates  |-> all_coords,
                         distance_km  |-> geod_inv(origin_coords, destination_coords),
                         total_points |-> Len(all_coords)])

\* main.py get_path_for_react: every exception becomes a success=False dict
get_path_for_react(origin_icao, destination_icao) ==
    LET path_data == calculate_flight_path(origin_icao, destination_icao)
    IN  IF path_data.raised = ""
        THEN [success      |-> TRUE,
              origin       |-> origin_icao,
              destination  |-> destination_icao,
              distance_km  |-> path_data.value.distance_km,
              coordinates  |-> SubSeq(path_data.value.coordinates, 1,
                                      Min(50, Len(path_data.value.coordinates))),
              total_points |-> Len(path_data.value.coordinates)]
        ELSE [success      |-> FALSE,
              error        |-> path_data.message,
              origin       |-> origin_icao,
              destination  |-> destination_icao]

\* main.py get_flight_path.  The HTTPException 404 is raised inside the try
\* block, whose `except Exception` turns it into the 500.
get_flight_path(origin_icao, destination_icao) ==
    IF Len(origin_icao) # 4 \/ Len(destination_icao) # 4
    THEN HTTPException(400, <<"ICAO codes must be exactly 4 characters long">>)
    ELSE LET result == get_path_for_react(upper(origin_icao),
                                          upper(destination_icao))
             in_try == IF result.success
                       THEN Return(result)
                       ELSE HTTPException(404, Get(result, "error",
                                                   <<"Path calculation failed">>))
         IN  IF in_try.raised = ""
             THEN in_try
             ELSE HTTPException(500, <<"Internal server error">>)

\* FlightPlanService.generate_flight_plan: the validation of the two airports
\* and the Route of the plan; the weather summary, risks and map layers of the
\* returned FlightPlan are built from the same route and are not modelled.
generate_flight_plan(origin_icao, destination_icao) ==
    IF get_coords(origin_icao) = None
    THEN ValueError(<<"Origin airport ", origin_icao, " not found">>)
    ELSE IF get_coords(destination_icao) = None
    THEN ValueError(<<"Destination airport ", destination_icao, " not found">>)
    ELSE LET route_data == calculate_great_circle_route(origin_icao,
                                                        destination_icao)
         IN  Return([route |->
                 [airports           |-> <<origin_icao, destination_icao>>,
                  distance_nm        |-> Round(route_data.value.distance_nm, 10),
                  estimated_time_min |-> route_data.value.estimated_time_min]])

---------------------------------------------------------------------------
(* flight_safety_system.py: flight plans of RealTimeFlightTracker and the    *)
(* route analysis of FlightSafetyAssessment                                  *)

\* RealTimeFlightTracker._get_airport_coordinates: two entries of its table,
\* and the coordinates it returns for every other code.
airport_coords ==
    ("KJFK" :> <<406413, -737781>>) @@ ("KLAX" :> <<339425, -1184081>>)

tracker_get_airport_coordinates(airport_code) ==
    IF airport_code \in DOMAIN airport_coords
    THEN airport_coords[airport_code]
    ELSE <<400000, -1000000>>

aircraft_speeds == ("B737" :> 450) @@ ("B777" :> 490) @@ ("DEFAULT" :> 450)

\* geopy geodesic(a, b).nautical, in hundredths of a nautical mile, for the
\* coordinates of the model.
geodesic_nautical(a, b) == (geod_inv(a, b) * 100) \div 1852

Max(a, b) == IF a >= b THEN a ELSE b

\* _generate_flight_waypoints.  The float flight time is the fraction
\* time_num / time_den of minutes.  altitude_feet, read only by the
\* temperature adjustment of the weather lookup, is not carried.  A sequence
\* number i is the tuple <<i>>; the interpolated position "i.p" of
\* _get_current_waypoint is <<i, p>>.
generate_flight_waypoints(dep_coords, arr_coords, time_num, time_den) ==
    LET num_waypoints == Max(5, time_num \div (30 * time_den))
    IN  [k \in 1..(num_waypoints + 1) |->
           LET i == k - 1
           IN  [sequence  |-> <<i>>,
                latitude  |-> dep_coords[1]
                                + Round((arr_coords[1] - dep_coords[1]) * i,
                                        num_waypoints),
                longitude |-> dep_coords[2]
                                + Round((arr_coords[2] - dep_coords[2]) * i,
                                        num_waypoints),
                time_offset_minutes |-> (i * time_num)
                                          \div (num_waypoints * time_den),
                phase |-> IF 100 * i < 15 * num_waypoints THEN "climb"
                          ELSE IF 100 * i > 85 * num_waypoints THEN "descent"
                          ELSE "cruise"]]

\* calculate_flight_duration.  total_flight_time
\*   = 30 + (distance_nm * 0.85 / cruise_speed) * 60 minutes
\*   = (3000 * cruise_speed + 51 * distance) / (100 * cruise_speed)
\* with distance in hundredths of a nautical mile.
calculate_flight_duration(departure_airport, arrival_airport, departure_time, aircraft_type) ==
    LET cruise_speed == Get(aircraft_speeds, aircraft_type,
                            aircraft_speeds["DEFAULT"])
        dep_coords   == tracker_get_airport_coordinates(departure_airport)
        arr_coords   == tracker_get_airport_coordinates(arrival_airport)
        distance     == geodesic_nautical(dep_coords, arr_coords)
        time_num     == 3000 * cruise_speed + 51 * distance
        time_den     == 100 * cruise_speed
    IN  [departure_airport         |-> departure_airport,
         arrival_airport           |-> arrival_airport,
         departure_time            |-> departure_time,
         estimated_arrival_time    |-> departure_time
                                         + (60 * time_num) \div time_den,
         total_flight_time_minutes |-> time_num \div time_den,
         distance_nautical_miles   |-> distance \div 100,
         cruise_speed_knots        |-> cruise_speed,
         waypoints                 |-> generate_flight_waypoints(
                                         dep_coords, arr_coords,
                                         time_num, time_den),
         aircraft_type             |-> aircraft_type]

\* FlightSafetyAssessment.airport_database: two loaded airports
airport_database ==
    ("KJFK" :> [latitude |-> 406413, longitude |-> -737781, elevation_ft |-> 13])
    @@ ("KLAX" :> [latitude |-> 339425, longitude |-> -1184081,
                   elevation_ft |-> 125])

\* _perform_ml_route_analysis, given the turbulence (tenths, 0.1 .. 5.0) and
\* icing (hundredths, 0.05 .. 0.80) predictions of the models or of the random
\* draws that replace them.
perform_ml_route_analysis(turbulence, icing) ==
    LET composite_risk == turbulence * 18 + icing * 4    \* tenths
    IN  [risk_assessment    |-> IF composite_risk < 350 THEN "LOW"
                                ELSE IF composite_risk < 650 THEN "MODERATE"
                                ELSE "HIGH",
         conditions_summary |-> <<"Turbulence: ", turbulence,
                                  "/5.0, Icing Risk: ", icing>>,
         turbulence_level   |-> turbulence,
         icing_risk         |-> icing]

\* analyze_flight_route
analyze_flight_route(departure_airport, arrival_airport, turbulence, icing) ==
    IF departure_airport \notin DOMAIN airport_database
         \/ arrival_airport \notin DOMAIN airport_database
    THEN [route_distance_nm   |-> 500,
          route_risk_level    |-> "MODERATE",
          weather_summary     |-> <<"Airport data unavailable - conservative assessment applied">>,
          turbulence_forecast |-> 25,
          icing_probability   |-> 25]
    ELSE LET departure_coordinates == airport_database[departure_airport]
             arrival_coordinates   == airport_database[arrival_airport]
             route_distance ==
                 geodesic_nautical(<<departure_coordinates.latitude,
                                     departure_coordinates.longitude>>,
                                   <<arrival_coordinates.latitude,
                                     arrival_coordinates.longitude>>)
             route_weather_analysis ==
                 perform_ml_route_analysis(turbulence, icing)
         IN  [route_distance_nm   |-> Round(route_distance, 100),
              route_risk_level    |-> route_weather_analysis.risk_assessment,
              weather_summary     |-> route_weather_analysis.conditions_summary,
              turbulence_forecast |-> route_weather_analysis.turbulence_level,
              icing_probability   |-> route_weather_analysis.icing_risk]

---------------------------------------------------------------------------
(* Calls of the route and risk entry points *)

RouteCodes    == {"KJFK", "KLAX", "ZZZZ", "YYYY", "kjfk", "ZZZ"}
AircraftTypes == {"B737", "B777", "C172"}
Turbulences   == {8, 22, 50}
Icings        == {12, 35, 80}

CalculateGreatCircleRoute ==
    /\ routeCall.fn = "none"
    /\ \E o \in RouteCodes, d \in RouteCodes :
         /\ routeCall' = [fn |-> "calculate_great_circle_route",
                          codes |-> <<o, d>>]
         /\ routeRet' = calculate_great_circle_route(o, d)
    /\ UNCHANGED exceptRoute

GetFlightPath ==
    /\ routeCall.fn = "none"
    /\ \E o \in RouteCodes, d \in RouteCodes :
         /\ routeCall' = [fn |-> "get_flight_path", codes |-> <<o, d>>]
         /\ routeRet' = get_flight_path(o, d)
    /\ UNCHANGED exceptRoute

GenerateFlightPlan ==
    /\ routeCall.fn = "none"
    /\ \E o \in RouteCodes, d \in RouteCodes :
         /\ routeCall' = [fn |-> "generate_flight_plan", codes |-> <<o, d>>]
         /\ routeRet' = generate_flight_plan(o, d)
    /\ UNCHANGED exceptRoute

CalculateFlightDuration ==
    /\ routeCall.fn = "none"
    /\ \E o \in RouteCodes, d \in RouteCodes, a \in AircraftTypes :
         /\ routeCall' = [fn |-> "calculate_flight_duration",
                          codes |-> <<o, d>>, aircraft_type |-> a]
         /\ routeRet' = Return(calculate_flight_duration(o, d, now, a))
    /\ UNCHANGED exceptRoute

AnalyzeFlightRoute ==
    /\ routeCall.fn = "none"
    /\ \E o \in RouteCodes, d \in RouteCodes,
          t \in Turbulences, i \in Icings :
         /\ routeCall' = [fn |-> "analyze_flight_route", codes |-> <<o, d>>]
         /\ routeRet' = Return(analyze_flight_route(o, d, t, i))
    /\ UNCHANGED exceptRoute

RouteNext ==
    \/ CalculateGreatCircleRoute
    \/ GetFlightPath
    \/ GenerateFlightPlan
    \/ CalculateFlightDuration
    \/ AnalyzeFlightRoute

SpecRoute == Init /\ [][RouteNext]_vars

---------------------------------------------------------------------------
(* Claims about unknown airports (SpecRoute) *)

\* The set of the elements of a sequence
Range(s) == {s[i] : i \in DOMAIN s}

\* The airports the called entry point has a coordinate entry for.
KnownTo(fn) ==
    IF fn = "calculate_flight_duration" THEN DOMAIN airport_coords
    ELSE IF fn = "analyze_flight_route" THEN DOMAIN airport_database
    ELSE {c \in RouteCodes : get_coords(c) # None}

\* The four-character codes of the request that have no coordinate entry.
UnknownCodes ==
    {c \in Range(routeCall.codes) : Len(c) = 4 /\ c \notin KnownTo(routeCall.fn)}

WellFormedRequest == \A c \in Range(routeCall.codes) : Len(c) = 4

\* The text of the failure the caller sees.
FailureText ==
    IF routeRet.raised = "ValueError" THEN routeRet.message
    ELSE IF routeRet.raised = "HTTPException" THEN routeRet.detail
    ELSE <<>>

\* C5: a route computation given a code without a coordinate entry fails, and
\* the failure names every code of the request that was not found.
C5_FailureNamesEveryUnknownCode ==
    ( /\ routeCall.fn \in {"calculate_great_circle_route", "get_flight_path",
                           "generate_flight_plan"}
      /\ WellFormedRequest
      /\ UnknownCodes # {} )
    => /\ routeRet.raised # ""
       /\ \A c \in UnknownCodes :
            \E i \in DOMAIN FailureText : FailureText[i] = c

\* C6: no route or risk computation returns a result for a request with a
\* code that has no coordinate entry: it fails instead of substituting default
\* coordinates or a default result.
C6_UnknownEndpointFails ==
    (routeCall.fn # "none" /\ WellFormedRequest /\ UnknownCodes # {})
    => routeRet.raised # ""

---------------------------------------------------------------------------
(* flight_safety_system.py: RealTimeFlightTracker, real-time monitoring *)

\* _get_current_waypoint, elapsed in seconds.  The interpolated latitude and
\* longitude are rounded to 1e-4 degree.
RECURSIVE CurrentFrom(_, _, _)
CurrentFrom(waypoints, elapsed, i) ==
    IF i > Len(waypoints)
    THEN waypoints[Len(waypoints)]
    ELSE IF 60 * waypoints[i].time_offset_minutes > elapsed
    THEN IF i = 1
         THEN waypoints[1]
         ELSE LET prev_waypoint == waypoints[i - 1]
                  next_waypoint == waypoints[i]
                  time_diff == 60 * (next_waypoint.time_offset_minutes
                                     - prev_waypoint.time_offset_minutes)
                  progress  == elapsed - 60 * prev_waypoint.time_offset_minutes
              IN  [sequence  |-> prev_waypoint.sequence
                                   \o <<(10 * progress) \div time_diff>>,
                   latitude  |-> prev_waypoint.latitude
                                   + Round((next_waypoint.latitude
                                            - prev_waypoint.latitude) * progress,
                                           time_diff),
                   longitude |-> prev_waypoint.longitude
                                   + Round((next_waypoint.longitude
                                            - prev_waypoint.longitude) * progress,
                                           time_diff),
                   time_offset_minutes |-> elapsed \div 60,
                   phase     |-> prev_waypoint.phase]
    ELSE CurrentFrom(waypoints, elapsed, i + 1)

get_current_waypoint(waypoints, elapsed) ==
    IF waypoints = <<>> THEN None ELSE CurrentFrom(waypoints, elapsed, 1)

\* _get_upcoming_waypoints, elapsed in seconds, lookahead in minutes
get_upcoming_waypoints(waypoints, elapsed, lookahead_minutes) ==
    SelectSeq(waypoints,
              LAMBDA w : /\ elapsed < 60 * w.time_offset_minutes
                         /\ 60 * w.time_offset_minutes
                              <= elapsed + 60 * lookahead_minutes)

\* _get_waypoint_weather: what the lookup for one waypoint can return, the
\* weather of the nearest airport as obtain_current_weather builds it, or an
\* error dict.
WaypointWeather ==
    {generate_realistic_weather(12, 14, 30, TSRA, "MVFR"),
     process_comprehensive_weather_data(
         [wind_speed_knots |-> 41, visibility_statute_miles |-> 5,
          flight_category |-> "LIFR"], EmptyDict, EmptyDict),
     [error |-> "No nearby airport found for weather data"]}

\* The alerts _check_weather_alerts raises for one update.
AlertsOf(update) ==
    LET weather  == Get(update, "weather", EmptyDict)
        waypoint == Get(update, "waypoint", EmptyDict)
        weather_phenomena == Get(weather, "present_weather", <<>>)
    IN  (IF Get(weather, "flight_category", "") = "LIFR"
         THEN <<[severity  |-> "HIGH",
                 type      |-> "LOW_VISIBILITY",
                 message   |-> <<"Low visibility conditions at ",
                                 Get(waypoint, "phase", "unknown"), " phase">>,
                 waypoint  |-> waypoint,
                 timestamp |-> update["timestamp"]]>>
         ELSE <<>>)
        \o
        (IF Get(weather, "wind_speed_knots", 0) > 40
         THEN <<[severity  |-> "MEDIUM",
                 type      |-> "HIGH_WINDS",
                 message   |-> <<"High winds (", weather["wind_speed_knots"],
                                 " knots) detected">>,
                 waypoint  |-> waypoint,
                 timestamp |-> update["timestamp"]]>>
         ELSE <<>>)
        \o
        (IF AnyIn(<<TS, TSRA>>, weather_phenomena)
         THEN <<[severity  |-> "HIGH",
                 type      |-> "THUNDERSTORM",
                 message   |-> <<"Thunderstorm activity detected in flight path">>,
                 waypoint  |-> waypoint,
                 timestamp |-> update["timestamp"]]>>
         ELSE <<>>)

\* _check_weather_alerts
RECURSIVE check_weather_alerts(_)
check_weather_alerts(weather_updates) ==
    IF weather_updates = <<>>
    THEN <<>>
    ELSE AlertsOf(Head(weather_updates))
           \o check_weather_alerts(Tail(weather_updates))

\* A poll that keeps of the new alerts only those not yet in the list.
record_alerts_deduplicated(flight_info, alerts) ==
    LET old   == Get(flight_info, "alerts", <<>>)
        fresh == SelectSeq(alerts,
                           LAMBDA a : \A i \in DOMAIN old : old[i].type # a.type)
    IN  IF alerts # <<>>
        THEN ("alerts" :> Extend(old, fresh)) @@ flight_info
        ELSE flight_info

\* if alerts: flight_info.setdefault('alerts', []).extend(alerts)
record_alerts(flight_info, alerts) ==
    IF alerts # <<>>
    THEN ("alerts" :> Extend(Get(flight_info, "alerts", <<>>), alerts))
           @@ flight_info
    ELSE flight_info

\* The weather updates of one poll: the current position, then the upcoming
\* waypoints, each with the weather looked up for it.
PollUpdates(current_waypoint, upcoming_waypoints, weathers, current_time) ==
    LET positions == (IF current_waypoint # None
                      THEN <<current_waypoint>> ELSE <<>>)
                     \o upcoming_waypoints
    IN  [i \in 1..Len(positions) |->
           [type      |-> IF i = 1 /\ current_waypoint # None
                          THEN "current_position" ELSE "upcoming_position",
            waypoint  |-> positions[i],
            weather   |-> weathers[i],
            timestamp |-> current_time]]

MaxFlights    == 1
MaxTime       == 660
TickStep      == 60
TrackedPairs  == {<<"KJFK", "KLAX">>}
DepartureAges == {16080, 16560}

\* start_real_time_monitoring, on the plan calculate_flight_duration made for
\* a flight that departed `age` seconds ago; the monitoring thread is started
\* at the head of its loop.
StartRealTimeMonitoring ==
    /\ Len(records) < MaxFlights
    /\ \E pair \in TrackedPairs, age \in DepartureAges :
         LET flight_plan == calculate_flight_duration(pair[1], pair[2],
                                                      now - age, "B737")
             flight_id   == <<flight_plan.departure_airport,
                              flight_plan.arrival_airport, now>>
         IN  /\ records' = Append(records,
                    [flight_plan     |-> flight_plan,
                     start_time      |-> now,
                     current_status  |-> "monitoring",
                     weather_updates |-> <<>>,
                     last_update     |-> now])
             /\ active_flights' = (flight_id :> (Len(records) + 1))
                                    @@ active_flights
             /\ pc' = Append(pc, "loop")
             /\ sleep_until' = Append(sleep_until, 0)
    /\ UNCHANGED <<now, exceptTracker>>

\* while flight_info['current_status'] == 'monitoring':
LoopTest ==
    /\ \E r \in DOMAIN records :
         /\ pc[r] = "loop"
         /\ pc' = [pc EXCEPT ![r] =
                      IF records[r].current_status = "monitoring"
                      THEN "body" ELSE "done"]
    /\ UNCHANGED <<now, records, active_flights, sleep_until, exceptTracker>>

\* The body of the loop when the flight time has passed: completed, break.
LoopComplete ==
    /\ \E r \in DOMAIN records :
         LET flight_plan == records[r].flight_plan
         IN  /\ pc[r] = "body"
             /\ now - flight_plan.departure_time
                  > 60 * flight_plan.total_flight_time_minutes
             /\ records' = [records EXCEPT ![r].current_status = "completed"]
             /\ pc' = [pc EXCEPT ![r] = "done"]
    /\ UNCHANGED <<now, active_flights, sleep_until, exceptTracker>>

\* The body of the loop otherwise: one poll, then time.sleep(300).
LoopPoll ==
    /\ \E r \in DOMAIN records :
         LET flight_info == records[r]
             flight_plan == flight_info.flight_plan
             elapsed     == now - flight_plan.departure_time
             current_waypoint ==
                 get_current_waypoint(flight_plan.waypoints, elapsed)
             upcoming_waypoints ==
                 get_upcoming_waypoints(flight_plan.waypoints, elapsed, 60)
             count == (IF current_waypoint # None THEN 1 ELSE 0)
                        + Len(upcoming_waypoints)
         IN  /\ pc[r] = "body"
             /\ ~ (elapsed > 60 * flight_plan.total_flight_time_minutes)
             /\ \E weathers \in [1..count -> WaypointWeather] :
                  LET weather_updates ==
                          PollUpdates(current_waypoint, upcoming_waypoints,
                                      weathers, now)
                      stored ==
                          [flight_info EXCEPT
                             !.weather_updates = Extend(@, weather_updates),
                             !.last_update = now]
                  IN  records' = [records EXCEPT ![r] =
                          record_alerts(stored,
                                        check_weather_alerts(weather_updates))]
             /\ pc' = [pc EXCEPT ![r] = "sleeping"]
             /\ sleep_until' = [sleep_until EXCEPT ![r] = now + 300]
    /\ UNCHANGED <<now, active_flights, exceptTracker>>

\* time.sleep returns
Wake ==
    /\ \E r \in DOMAIN records :
         /\ pc[r] = "sleeping"
         /\ now >= sleep_until[r]
         /\ pc' = [pc EXCEPT ![r] = "loop"]
    /\ UNCHANGED <<now, records, active_flights, sleep_until, exceptTracker>>

\* A thread that has a step to take.
Runnable(r) ==
    \/ pc[r] \in {"loop", "body"}
    \/ pc[r] = "sleeping" /\ now >= sleep_until[r]

\* Time passes, once every thread sleeps or has ended: the steps of a thread
\* take no time on the scale of the clock.
Tick ==
    /\ now + TickStep <= MaxTime
    /\ \A r \in DOMAIN records : ~ Runnable(r)
    /\ now' = now + TickStep
    /\ UNCHANGED <<trackerVars, exceptTracker>>

TrackerNext ==
    \/ StartRealTimeMonitoring
    \/ LoopTest
    \/ LoopComplete
    \/ LoopPoll
    \/ Wake
    \/ Tick

SpecTracker == Init /\ [][TrackerNext]_vars

\* Cancellation as the specification describes it: the status of a flight is
\* moved away from 'monitoring' in the dict active_flights holds for its id.
\* The sources have no operation that does so; the writer is a caller of the
\* tracker.
Cancel ==
    /\ \E flight_id \in DOMAIN active_flights :
         LET r == active_flights[flight_id]
         IN  /\ records[r].current_status = "monitoring"
             /\ records' = [records EXCEPT ![r].current_status = "cancelled"]
    /\ UNCHANGED <<now, active_flights, pc, sleep_until, exceptTracker>>

CancelNext ==
    \/ StartRealTimeMonitoring
    \/ LoopTest
    \/ LoopComplete
    \/ LoopPoll
    \/ Wake
    \/ Tick
    \/ Cancel

SpecCancel == Init /\ [][CancelNext]_vars

---------------------------------------------------------------------------
(* Claims about the monitoring threads (SpecTracker, SpecCancel) *)

\* The step is a weather poll of the thread of record r.
Polls(r) ==
    Len(records'[r].weather_updates) > Len(records[r].weather_updates)

\* The step starts a sleep of the thread of record r.
StartsSleep(r) == pc[r] # "sleeping" /\ pc'[r] = "sleeping"

\* C8: once the status of a flight is no longer 'monitoring', its thread
\* performs no further weather poll and starts no further sleep.
C8_NoPollOrSleepAfterStatusChange ==
    [][\A r \in DOMAIN records :
          records[r].current_status # "monitoring"
            => ~ (Polls(r) \/ StartsSleep(r))]_vars

\* flight_info.get('alerts', [])
Alerts(flight_info) == Get(flight_info, "alerts", <<>>)

IsPrefix(s, t) == Len(s) <= Len(t) /\ SubSeq(t, 1, Len(s)) = s

\* The number of entries of a list that were made at time t and satisfy P.
CountAt(list, t, P(_)) ==
    Cardinality({i \in DOMAIN list : list[i].timestamp = t /\ P(list[i])})

IsLIFR(update)      == Get(update.weather, "flight_category", "") = "LIFR"
IsHighWind(update)  == Get(update.weather, "wind_speed_knots", 0) > 40
IsLowVisAlert(a)    == a.type = "LOW_VISIBILITY"
IsHighWindAlert(a)  == a.type = "HIGH_WINDS"

\* No step removes, reorders or replaces an alert already in a list.
AlertsOnlyAppended ==
    \A r \in DOMAIN records :
        IsPrefix(Alerts(records[r]), Alerts(records'[r]))

\* Every poll has left one alert for each snapshot in the low-visibility
\* condition and one for each snapshot in the high-wind condition, however
\* many earlier polls met the same condition.
RecordedOncePerPoll ==
    \A r \in DOMAIN records :
        \A i \in DOMAIN records[r].weather_updates :
            LET t == records[r].weather_updates[i].timestamp
            IN  /\ CountAt(Alerts(records[r]), t, IsLowVisAlert)
                     = CountAt(records[r].weather_updates, t, IsLIFR)
                /\ CountAt(Alerts(records[r]), t, IsHighWindAlert)
                     = CountAt(records[r].weather_updates, t, IsHighWind)

\* C9: the alert list of a tracked flight only grows by appending, and a
\* condition that holds on several polls is recorded on each of them.
C9_AlertsAppendOnly ==
    [][AlertsOnlyAppended]_vars /\ []RecordedOncePerPoll

\* A flight whose low-visibility condition was recorded on two polls, after
\* which a further step was taken on its list.
C9_Witness ==
    \E r \in DOMAIN records :
        \E i, j \in DOMAIN Alerts(records[r]) :
            /\ Alerts(records[r])[i].type = "LOW_VISIBILITY"
            /\ Alerts(records[r])[j].type = "LOW_VISIBILITY"
            /\ Alerts(records[r])[i].timestamp < Alerts(records[r])[j].timestamp
            /\ records[r].current_status = "completed"

\* The phenomena of a snapshot, under the key its producers write.
PhenomenaOf(weather) == Get(weather, "weather_phenomena", <<>>)

\* Some alert of the severity and type was raised for the update.
Alerted(flight_info, update, severity, type) ==
    \E i \in DOMAIN Alerts(flight_info) :
        LET a == Alerts(flight_info)[i]
        IN  /\ a.severity = severity
            /\ a.type = type
            /\ a.timestamp = update.timestamp
            /\ a.waypoint = update.waypoint

\* C10: every polled snapshot with flight category LIFR has a HIGH alert,
\* every one with wind above 40 kt a MEDIUM alert, and every one whose
\* phenomena contain TS or TSRA a HIGH thunderstorm alert.
C10_AlertForEveryCondition ==
    \A r \in DOMAIN records :
        \A i \in DOMAIN records[r].weather_updates :
            LET update == records[r].weather_updates[i]
            IN  /\ IsLIFR(update)
                     => Alerted(records[r], update, "HIGH", "LOW_VISIBILITY")
                /\ IsHighWind(update)
                     => Alerted(records[r], update, "MEDIUM", "HIGH_WINDS")
                /\ AnyIn(<<TS, TSRA>>, PhenomenaOf(update.weather))
                     => Alerted(records[r], update, "HIGH", "THUNDERSTORM")

---------------------------------------------------------------------------
(* ultimate_aviation_system.py: RealTimeFlightMonitor (SpecMonitor) *)

\* _get_airport_info: two entries of the fallback table, and the dict
\* returned for every other code.
ultimate_fallback_coords ==
    ("KJFK" :> [latitude_deg |-> 406398, longitude_deg |-> -737789,
                elevation_ft |-> 13])
    @@ ("KLAX" :> [latitude_deg |-> 339425, longitude_deg |-> -1184081,
                   elevation_ft |-> 125])

get_airport_info(airport_code) ==
    Get(ultimate_fallback_coords, airport_code,
        [latitude_deg |-> 400000, longitude_deg |-> -1000000])

\* UltimateAviationWeatherSystem._get_airport_coordinates
ultimate_get_airport_coordinates(airport_code) ==
    LET info == get_airport_info(airport_code)
    IN  IF DOMAIN info # {}
        THEN <<info.latitude_deg, info.longitude_deg>>
        ELSE <<400000, -1000000>>

\* _calculate_great_circle_distance (haversine, nautical miles), for the
\* coordinates of the model.
calculate_great_circle_distance(lat1, lon1, lat2, lon2) ==
    IF <<lat1, lon1>> = <<lat2, lon2>> THEN 0
    ELSE IF {<<lat1, lon1>>, <<lat2, lon2>>}
              = {<<406398, -737789>>, <<339425, -1184081>>} THEN 2146
    ELSE IF {<<lat1, lon1>>, <<lat2, lon2>>}
              = {<<406398, -737789>>, <<400000, -1000000>>} THEN 1200
    ELSE 954

\* _estimate_flight_parameters; duration_hours in tenths of an hour
estimate_flight_parameters(departure, arrival) ==
    LET dep_info == get_airport_info(departure)
        arr_info == get_airport_info(arrival)
        estimated_distance ==
            calculate_great_circle_distance(
                Get(dep_info, "latitude_deg", 0), Get(dep_info, "longitude_deg", 0),
                Get(arr_info, "latitude_deg", 0), Get(arr_info, "longitude_deg", 0))
        estimated_speed == IF estimated_distance < 500 THEN 350
                           ELSE IF estimated_distance < 1500 THEN 450
                           ELSE 500
        duration_hours == Round(10 * estimated_distance, estimated_speed)
    IN  [distance_nm         |-> estimated_distance,
         estimated_speed_kts |-> estimated_speed,
         duration_hours      |-> duration_hours,
         estimated_fuel_time |-> duration_hours + 5]

\* _estimate_flight_duration: params.get('flight_time_hours', 2.0)
estimate_flight_duration(departure, arrival) ==
    Get(estimate_flight_parameters(departure, arrival), "flight_time_hours", 20)

\* The route dict start_real_time_monitoring and _setup_flight_monitoring
\* build; estimated_flight_time_hours in tenths of an hour.
route_info(departure, arrival, hours) ==
    [waypoints |-> <<ultimate_get_airport_coordinates(departure),
                     ultimate_get_airport_coordinates(arrival)>>,
     estimated_flight_time_hours |-> hours]

\* RealTimeFlightMonitor.start_flight_monitoring: the dict stored for the id
\* and the dict returned.
monitored_flight(route) ==
    [route            |-> route,
     start_time       |-> now,
     current_position |-> route.waypoints[1],
     waypoint_index   |-> 0,
     status           |-> "ACTIVE",
     alerts           |-> <<>>,
     weather_updates  |-> <<>>]

monitoring_started(flight_id) ==
    [flight_id       |-> flight_id,
     status          |-> "Monitoring started",
     update_interval |-> "5 minutes"]

\* _update_flight_position
update_flight_position(flight) ==
    LET elapsed    == now - flight.start_time
        total_time == 360 * flight.route.estimated_flight_time_hours
        waypoints  == flight.route.waypoints
    IN  IF elapsed >= total_time
        THEN waypoints[Len(waypoints)]
        ELSE LET segment_index  == (elapsed * (Len(waypoints) - 1))
                                     \div total_time
                 segment_offset == elapsed * (Len(waypoints) - 1)
                                     - segment_index * total_time
                 a == waypoints[segment_index + 1]
                 b == waypoints[segment_index + 2]
             IN  <<a[1] + Round(((b[1] - a[1]) \div 100) * segment_offset,
                                total_time \div 100),
                   a[2] + Round(((b[2] - a[2]) \div 100) * segment_offset,
                                total_time \div 100)>>

\* _calculate_progress, in tenths of a percent
calculate_progress(flight) ==
    Min(((now - flight.start_time) * 1000)
          \div (360 * flight.route.estimated_flight_time_hours), 1000)

\* What _check_upcoming_hazards can return.
UpcomingHazards ==
    {<<>>,
     <<[type |-> "Thunderstorms", severity |-> "Severe",
        recommendation |-> "Consider route deviation or altitude change"]>>}

\* get_flight_update
get_flight_update(flight_id, upcoming_hazards) ==
    IF flight_id \notin DOMAIN um_flights
    THEN [error |-> "Flight not found"]
    ELSE LET flight == um_flights[flight_id]
         IN  [flight_id        |-> flight_id,
              current_position |-> update_flight_position(flight),
              flight_progress  |-> calculate_progress(flight),
              upcoming_hazards |-> upcoming_hazards,
              next_update      |-> now + 300]

MonitorCodes    == {"KJFK", "ZZZZ"}
MonitorIds      == {"DEMO_FLIGHT", "AV101"}
MonitorTickStep == 1800
MonitorMaxTime  == 9000

\* _setup_flight_monitoring: the demonstration flight of 2.5 hours
SetupFlightMonitoring ==
    /\ \E departure \in MonitorCodes, arrival \in MonitorCodes :
         /\ um_flights' = ("DEMO_FLIGHT" :>
                             monitored_flight(route_info(departure, arrival, 25)))
                            @@ um_flights
         /\ um_ret' = monitoring_started("DEMO_FLIGHT")
    /\ UNCHANGED <<now, exceptMonitor>>

\* UltimateAviationWeatherSystem.start_real_time_monitoring
UltimateStartRealTimeMonitoring ==
    /\ \E flight_id \in MonitorIds,
          departure \in MonitorCodes, arrival \in MonitorCodes :
         /\ um_flights' = (flight_id :>
                             monitored_flight(
                                 route_info(departure, arrival,
                                     estimate_flight_duration(departure, arrival))))
                            @@ um_flights
         /\ um_ret' = monitoring_started(flight_id)
    /\ UNCHANGED <<now, exceptMonitor>>

\* get_flight_status_update
GetFlightUpdate ==
    /\ \E flight_id \in MonitorIds, upcoming_hazards \in UpcomingHazards :
         um_ret' = get_flight_update(flight_id, upcoming_hazards)
    /\ UNCHANGED <<now, um_flights, exceptMonitor>>

MonitorTick ==
    /\ now + MonitorTickStep <= MonitorMaxTime
    /\ now' = now + MonitorTickStep
    /\ UNCHANGED <<monitorVars, exceptMonitor>>

MonitorNext ==
    \/ SetupFlightMonitoring
    \/ UltimateStartRealTimeMonitoring
    \/ GetFlightUpdate
    \/ MonitorTick

SpecMonitor == Init /\ [][MonitorNext]_vars

---------------------------------------------------------------------------
(* Claims about the state machine of a tracked flight (SpecMonitor) *)

\* The tracked flights of both monitors: status, elapsed seconds, planned
\* total seconds.  'ACTIVE' is the name RealTimeFlightMonitor gives to the
\* monitoring state.
TrackedFlights ==
    {[status  |-> records[r].current_status,
      elapsed |-> now - records[r].flight_plan.departure_time,
      total   |-> 60 * records[r].flight_plan.total_flight_time_minutes] :
        r \in DOMAIN records}
    \cup
    {[status  |-> IF um_flights[f].status = "ACTIVE" THEN "monitoring"
                  ELSE um_flights[f].status,
      elapsed |-> now - um_flights[f].start_time,
      total   |-> 360 * um_flights[f].route.estimated_flight_time_hours] :
        f \in DOMAIN um_flights}

\* C7: a tracked flight is monitoring or completed, is completed only once
\* its elapsed time exceeds its planned total flight time, and does not stay
\* monitoring after that time has passed by more than one polling interval.
C7_MonitoringThenCompleted ==
    \A f \in TrackedFlights :
        /\ f.status \in {"monitoring", "completed"}
        /\ f.status = "completed" => f.elapsed > f.total
        /\ f.elapsed > f.total + 300 => f.status = "completed"

---------------------------------------------------------------------------
(* ultimate_aviation_system.py: provider records and their parsing *)

\* A JSON value of a provider record: null, a number, or a string (a sequence
\* of characters).  A number, and the digits of a numeric string, are written
\* in the scaled unit of the field they belong to.
Null   == [t |-> "null"]
Num(n) == [t |-> "num", n |-> n]
Str(s) == [t |-> "str", s |-> s]

Digits == <<"0", "1", "2", "3", "4", "5", "6", "7", "8", "9">>

IsDigit(c) == \E d \in DOMAIN Digits : Digits[d] = c

DigitValue(c) == (CHOOSE d \in DOMAIN Digits : Digits[d] = c) - 1

\* The value of a sequence of digits
RECURSIVE DigitsValue(_)
DigitsValue(s) ==
    IF s = <<>> THEN 0
    ELSE 10 * DigitsValue(SubSeq(s, 1, Len(s) - 1)) + DigitValue(s[Len(s)])

\* float(x): the number, or the exception raised.  A string converts when it
\* is a non-empty run of digits, with an optional leading minus sign.
float(x) ==
    IF x.t = "num" THEN Return(x.n)
    ELSE IF x.t = "null" THEN [raised |-> "TypeError"]
    ELSE LET s    == x.s
             body == IF s # <<>> /\ s[1] = "-" THEN Tail(s) ELSE s
         IN  IF body # <<>> /\ \A i \in DOMAIN body : IsDigit(body[i])
             THEN Return(IF body = s THEN DigitsValue(body)
                         ELSE 0 - DigitsValue(body))
             ELSE [raised |-> "ValueError"]

\* str.upper(), character by character, for the letters the records use
str_upper(s) ==
    [i \in DOMAIN s |-> IF s[i] = "s" THEN "S"
                        ELSE IF s[i] = "m" THEN "M" ELSE s[i]]

\* str.replace(sub, ''), sub not empty
RECURSIVE str_remove(_, _)
str_remove(s, sub) ==
    IF Len(s) < Len(sub) THEN s
    ELSE IF SubSeq(s, 1, Len(sub)) = sub
    THEN str_remove(SubSeq(s, Len(sub) + 1, Len(s)), sub)
    ELSE <<s[1]>> \o str_remove(Tail(s), sub)

\* x = float(x) if x is not None and x != '' else default, inside
\* try / except (ValueError, TypeError): x = default
float_or_default(x, default) ==
    IF x = Null \/ x = Str(<<>>) THEN default
    ELSE IF float(x).raised = "" THEN float(x).value
    ELSE default

\* The visibility of _parse_metar_data: the conversions of the "10+" and
\* "6SM" forms are made outside any try block of their own.
parse_visibility(visibility) ==
    IF visibility = Null \/ visibility = Str(<<>>) THEN Return(100)
    ELSE IF visibility.t = "str" /\ Contains(<<"+">>, visibility.s)
    THEN float(Str(str_remove(visibility.s, <<"+">>)))
    ELSE IF visibility.t = "str" /\ Contains(<<"S", "M">>, str_upper(visibility.s))
    THEN float(Str(str_remove(str_upper(visibility.s), <<"S", "M">>)))
    ELSE Return(float_or_default(visibility, 100))

\* _parse_metar_data.  The fields in converted units (Fahrenheit, mph, km, mb)
\* are computed from the fields kept here and are not carried.  Any exception
\* that reaches the outer try block makes the result {}.
parse_metar_data(metar_data) ==
    LET temp       == float_or_default(Get(metar_data, "temp", Null), 15)
        wind_speed == float_or_default(Get(metar_data, "wspd", Null), 5)
        wind_dir   == float_or_default(Get(metar_data, "wdir", Null), 270)
        pressure   == float_or_default(Get(metar_data, "altim", Null), 3000)
        visibility == parse_visibility(Get(metar_data, "visib", Null))
        dewpoint   == float_or_default(Get(metar_data, "dewp", Null), temp - 5)
    IN  IF visibility.raised # "" THEN EmptyDict
        ELSE [raw_metar                |-> Get(metar_data, "rawOb",
                                               Str(<<"METAR DATA UNAVAILABLE">>)),
              temperature_celsius      |-> temp,
              dewpoint_celsius         |-> dewpoint,
              wind_direction_degrees   |-> wind_dir,
              wind_speed_knots         |-> wind_speed,
              visibility_statute_miles |-> visibility.value,
              barometric_pressure_inhg |-> pressure,
              flight_category          |-> Get(metar_data, "fltcat", "VFR"),
              observation_time         |-> Get(metar_data, "obsTime", "UNKNOWN")]

\* _get_fallback_weather_data, for codes with none of the regional prefixes:
\* base_temp = 25 - abs(lat - 30) * 0.5 - (elevation / 1000) * 2, kept to the
\* whole degree; pressure = 30.0 - (elevation / 1000) * 0.1.
get_fallback_weather_data(airport_code) ==
    LET airport_info == get_airport_info(airport_code)
        lat       == Get(airport_info, "latitude_deg", 400000)
        elevation == Get(airport_info, "elevation_ft", 1000)
        base_temp == 250000 - Abs(lat - 300000) \div 2 - 20 * elevation
    IN  [raw_metar                |-> Str(<<"FALLBACK DATA - ", airport_code,
                                            " weather service temporarily unavailable">>),
         temperature_celsius      |-> Round(base_temp, 10000),
         dewpoint_celsius         |-> Round(base_temp - 80000, 10000),
         wind_direction_degrees   |-> 270,
         wind_speed_knots         |-> 8,
         visibility_statute_miles |-> 100,
         barometric_pressure_inhg |-> Round(300000 - elevation, 100),
         flight_category          |-> "VFR",
         observation_time         |-> now]

\* _get_fallback_taf_data
get_fallback_taf_data(airport_code) ==
    [raw_taf          |-> <<"FALLBACK TAF - ", airport_code,
                            " forecast service temporarily unavailable">>,
     forecast_issued  |-> now,
     forecast_summary |-> "VFR conditions expected - based on seasonal patterns"]

---------------------------------------------------------------------------
(* ultimate_aviation_system.py: get_multi_source_weather (SpecAggregate) *)

\* dict.update
Update(d, new) == new @@ d

\* _parse_taf_data; forecast_summary is a text derived from raw_taf and is
\* not carried.
parse_taf_data(taf_data) ==
    [raw_taf         |-> Get(taf_data, "rawTAF", <<>>),
     forecast_issued |-> Get(taf_data, "issueTime", None)]

\* _parse_pirep_data: the first five reports; pirep_summary is a text derived
\* from them and is not carried.
parse_pirep_data(pirep_data) ==
    LET relevant_pireps ==
            [i \in 1..Min(Len(pirep_data), 5) |->
                [turbulence |-> Get(pirep_data[i], "turb", Null),
                 icing      |-> Get(pirep_data[i], "ice", Null),
                 altitude   |-> Get(pirep_data[i], "fltlvl", Null)]]
    IN  [pirep_reports |-> relevant_pireps,
         pirep_count   |-> Len(relevant_pireps)]

SigmetKeywords == <<"CONVECTIVE", "TURBULENCE", "ICING", "OBSCURATION">>

\* _parse_sigmet_data: the advisories whose text (a sequence of words) names
\* the airport or one of the keywords
RECURSIVE RelevantSigmets(_, _)
RelevantSigmets(sigmet_data, airport_code) ==
    IF sigmet_data = <<>> THEN <<>>
    ELSE LET sigmet   == Head(sigmet_data)
             raw_text == Get(sigmet, "rawSigmet", <<>>)
             rest     == RelevantSigmets(Tail(sigmet_data), airport_code)
         IN  IF Contains(<<airport_code>>, raw_text)
                \/ \E k \in DOMAIN SigmetKeywords :
                       Contains(<<SigmetKeywords[k]>>, raw_text)
             THEN <<[hazard     |-> Get(sigmet, "hazard", "Unknown"),
                     severity   |-> Get(sigmet, "severity", "Unknown"),
                     raw_sigmet |-> raw_text]>> \o rest
             ELSE rest

parse_sigmet_data(sigmet_data, airport_code) ==
    LET relevant_sigmets == RelevantSigmets(sigmet_data, airport_code)
    IN  [sigmet_warnings |-> relevant_sigmets,
         sigmet_count    |-> Len(relevant_sigmets)]

\* The seven predictors load_all_models looks for
PredictorNames == {"temperature_predictor", "wind_speed_predictor", "wind_direction_predictor", "pressure_predictor", "turbulence_predictor", "icing_predictor", "weather_classifier"}

\* model.predict([features])[0]: the value, or the exception raised
Predicts(v) == [raised |-> "", value |-> v]
Throws      == [raised |-> "ValueError"]

\* if name in self.models: try: <store the keys> except: pass
Predicted(models, name, keys) ==
    IF name \in DOMAIN models /\ models[name].raised = ""
    THEN keys ELSE EmptyDict

\* 'HIGH' if pred > 0.6 else 'MODERATE' if pred > 0.3 else 'LOW', pred in
\* hundredths
risk_level(pred) ==
    IF pred > 60 THEN "HIGH" ELSE IF pred > 30 THEN "MODERATE" ELSE "LOW"

weather_types == <<"CLEAR", "PARTLY_CLOUDY", "OVERCAST", "PRECIPITATION", "SEVERE">>

\* The +3 / +2 / +1 of the overall assessment for one risk level
RiskFactor(level) ==
    IF level = "HIGH" THEN 3 ELSE IF level = "MODERATE" THEN 2
    ELSE IF level = "LOW" THEN 1 ELSE 0

\* _calculate_prediction_confidence
calculate_prediction_confidence(predictions, weather_data) ==
    LET sources     == Range(Get(weather_data, "sources", <<>>))
        models_used == Get(predictions, "models_analyzed", 0)
        confidence_score ==
              (IF "METAR" \in sources THEN 25 ELSE 0)
            + (IF "TAF" \in sources THEN 20 ELSE 0)
            + (IF "PIREP" \in sources THEN 15 ELSE 0)
            + (IF "SIGMET" \in sources THEN 10 ELSE 0)
            + (IF "HISTORICAL" \in sources THEN 10 ELSE 0)
            + (IF models_used >= 7 THEN 20 ELSE IF models_used >= 5 THEN 15
               ELSE IF models_used >= 3 THEN 10 ELSE 0)
            + (IF "temperature_confidence" \in DOMAIN predictions THEN 10 ELSE 0)
    IN  IF confidence_score >= 85 THEN "VERY HIGH"
        ELSE IF confidence_score >= 70 THEN "HIGH"
        ELSE IF confidence_score >= 50 THEN "MODERATE"
        ELSE "LOW"

\* _generate_ml_predictions.  models is self.models: the predictors that
\* loaded, each with what its predict() does on this feature vector.  The
\* feature vector of _prepare_features_for_ml is built from weather_data with
\* defaults for every key, so it is never None here.
generate_ml_predictions(weather_data, models) ==
    IF DOMAIN models = {} THEN EmptyDict
    ELSE
    LET pirep_reports == Get(weather_data, "pirep_reports", <<>>)
        P(name)       == models[name].value
        turbulence_reports ==
            Cardinality({i \in DOMAIN pirep_reports :
                            pirep_reports[i].turbulence \notin {Null, Str(<<>>)}})
        icing_reports ==
            Cardinality({i \in DOMAIN pirep_reports :
                            pirep_reports[i].icing \notin {Null, Str(<<>>)}})
        sigmet_count == Len(Get(weather_data, "sigmet_warnings", <<>>))
        predictions ==
            Predicted(models, "temperature_predictor",
                [predicted_temperature  |-> P("temperature_predictor"),
                 temperature_confidence |-> "HIGH (Geo + Historical + Real-time)"])
            @@ Predicted(models, "wind_speed_predictor",
                [predicted_wind_speed |-> P("wind_speed_predictor"),
                 wind_data_sources    |-> <<"METAR + ", Len(pirep_reports),
                                            " PIREP reports">>])
            @@ Predicted(models, "wind_direction_predictor",
                [predicted_wind_direction |-> P("wind_direction_predictor")])
            @@ Predicted(models, "turbulence_predictor",
                [turbulence_risk  |-> risk_level(P("turbulence_predictor")),
                 turbulence_score |-> P("turbulence_predictor")]
                @@ (IF turbulence_reports > 0
                    THEN [turbulence_reports |-> turbulence_reports]
                    ELSE EmptyDict))
            @@ Predicted(models, "icing_predictor",
                [icing_risk  |-> risk_level(P("icing_predictor")),
                 icing_score |-> P("icing_predictor")]
                @@ (IF icing_reports > 0
                    THEN [icing_reports |-> icing_reports]
                    ELSE EmptyDict))
            @@ Predicted(models, "pressure_predictor",
                [predicted_pressure |-> P("pressure_predictor")])
            @@ Predicted(models, "weather_classifier",
                [predicted_weather |->
                    weather_types[(P("weather_classifier") % Len(weather_types)) + 1]]
                @@ (IF sigmet_count > 0
                    THEN [weather_alerts |-> sigmet_count]
                    ELSE EmptyDict))
        turb_risk    == Get(predictions, "turbulence_risk", "LOW")
        ice_risk     == Get(predictions, "icing_risk", "LOW")
        weather_pred == Get(predictions, "predicted_weather", "CLEAR")
        risk_factors ==
              RiskFactor(turb_risk) + RiskFactor(ice_risk)
            + (IF weather_pred \in {"SEVERE", "PRECIPITATION"} THEN 2
               ELSE IF weather_pred = "OVERCAST" THEN 1 ELSE 0)
        overall_risk ==
            IF risk_factors >= 7 THEN "HIGH"
            ELSE IF risk_factors >= 5 THEN "MODERATE" ELSE "LOW"
        counted ==
            predictions
            @@ [overall_flight_safety |-> overall_risk,
                data_sources_count    |-> Len(Get(weather_data, "sources", <<>>)),
                models_analyzed       |-> Cardinality(DOMAIN predictions)]
    IN  counted @@ [prediction_confidence |->
                        calculate_prediction_confidence(counted, weather_data)]


\* requests.get(url, timeout=...): what one fetch can come back with
Response(status_code, json) == [raised |-> "", status_code |-> status_code, decodes |-> TRUE, json |-> json]
ConnectionError == [raised |-> "ConnectionError"]
Timeout         == [raised |-> "Timeout"]
\* a 200 response whose body is not JSON: response.json() raises
NotJson         == [raised |-> "", status_code |-> 200, decodes |-> FALSE, json |-> <<>>]

\* Seconds a fetch that does not time out takes
FastLatency == 1

\* The timeout= argument of each requests.get
timeout_of == [METAR |-> 30, TAF |-> 30, PIREP |-> 20, SIGMET |-> 20]

\* Seconds the caller is blocked in one requests.get
Latency(source, response) ==
    IF response = Timeout THEN timeout_of[source] ELSE FastLatency

\* A full observation, and records with one field the parser cannot convert
FullMetar == [temp |-> Num(22), dewp |-> Num(14), wspd |-> Num(12), wdir |-> Num(180), altim |-> Num(2992), visib |-> Num(60), fltcat |-> "MVFR", rawOb |-> Str(<<"METAR">>), obsTime |-> "T"]

WithField(record, k, v) == [record EXCEPT ![k] = v]

MetarRecords ==
    {FullMetar,
     WithField(FullMetar, "visib", Str(<<"1", "0", "0", "+">>)),
     WithField(FullMetar, "visib", Str(<<"6", "0", "S", "M">>)),
     WithField(FullMetar, "visib", Str(<<"P", "6", "0", "S", "M">>)),
     WithField(FullMetar, "visib", Str(<<"C", "A", "V", "O", "K">>)),
     WithField(FullMetar, "temp", Str(<<"M">>)),
     WithField(FullMetar, "wspd", Str(<<"V", "R", "B">>)),
     WithField(FullMetar, "wdir", Str(<<"V", "R", "B">>)),
     WithField(FullMetar, "altim", Null),
     [temp |-> Num(22)]}

MetarResponses ==
    {Response(200, <<m>>) : m \in MetarRecords}
    \cup {Response(200, <<>>), Response(503, <<>>), NotJson, ConnectionError, Timeout}

TafResponses ==
    {Response(200, <<[rawTAF |-> <<"TAF", "VFR">>, issueTime |-> "T"]>>),
     Response(200, <<[issueTime |-> "T"]>>),
     Response(503, <<>>), ConnectionError, Timeout}

PirepResponses ==
    {Response(200, <<[turb |-> Str(<<"MOD">>), fltlvl |-> Num(350)]>>),
     Response(200, <<>>),
     Response(503, <<>>), ConnectionError, Timeout}

SigmetResponses ==
    {Response(200, <<[rawSigmet |-> <<"SIGMET", "ICING">>, hazard |-> "ICE"],
                     [rawSigmet |-> <<"SIGMET", "ASH">>]>>),
     Response(200, <<>>),
     Response(503, <<>>), ConnectionError, Timeout}

\* self.models after load_all_models: none, all seven, and sets with a
\* predictor that is missing or throws
AllPredict == [n \in PredictorNames |-> Predicts(IF n \in {"turbulence_predictor", "icing_predictor"} THEN 70 ELSE 3)]

WithoutPredictor(models, n) == [m \in DOMAIN models \ {n} |-> models[m]]

ModelSets ==
    {EmptyDict,
     AllPredict,
     WithField(AllPredict, "turbulence_predictor", Throws),
     WithoutPredictor(AllPredict, "icing_predictor"),
     [weather_classifier |-> Predicts(0)]}

\* self.weather_patterns: with or without an entry for the airport
WeatherPatterns(airport_code) ==
    {EmptyDict, airport_code :> [avg_temperature |-> 18, avg_wind_speed |-> 9]}

AggregateCodes == {"KJFK", "ZZZZ"}

\* The order in which the body of the loop reaches the four sources
NextSource == [METAR |-> "TAF", TAF |-> "PIREP", PIREP |-> "SIGMET", SIGMET |-> "finish"]

Append1(weather_data, tag) ==
    [weather_data EXCEPT !["sources"] = Append(@, tag)]

\* The fetch failed: the request raised, or the status is not 200
Failed(response) == response.raised # "" \/ response.status_code # 200

\* The start of each try block: requests.get, the status test and
\* response.json().  The payload, nothing for a status other than 200, or the
\* exception raised by the request or by the decoding.
fetch_json(response) ==
    IF response.raised # "" THEN [raised |-> response.raised]
    ELSE IF response.status_code # 200 THEN Return(<<>>)
    ELSE IF ~response.decodes THEN [raised |-> "JSONDecodeError"]
    ELSE Return(response.json)

\* A handler that lets the exception of the try block through
reraise(body, recovered) == body

\* except Exception as e: print(...) / pass.  The statements after the block
\* go on with what was recovered.
except_Exception(body, recovered) ==
    IF body.raised # "" THEN Return(recovered) ELSE body

\* Lines 187-208: the METAR block and its fallback.  Return(weather_data), or
\* the exception that leaves the block.
after_metar(weather_data, response) ==
    LET body == except_Exception(fetch_json(response), <<>>)
        metar_data   == body.value
        parsed_metar == IF metar_data # <<>>
                        THEN parse_metar_data(metar_data[1]) ELSE EmptyDict
        \* parsed_metar.get('temperature_celsius') is not None: the parser
        \* stores a number under the key whenever it returns the key
        metar_success == "temperature_celsius" \in DOMAIN parsed_metar
    IN  IF body.raised # "" THEN body
        ELSE IF metar_success
        THEN Return(Append1(Update(weather_data, parsed_metar), "METAR"))
        ELSE Return(Append1(Update(weather_data,
                                   get_fallback_weather_data(weather_data.airport_code)),
                            "FALLBACK_METAR"))

\* Lines 210-230: the TAF block and its fallback
after_taf(weather_data, response) ==
    LET body == except_Exception(fetch_json(response), <<>>)
        taf_data    == body.value
        parsed_taf  == IF taf_data # <<>>
                       THEN parse_taf_data(taf_data[1]) ELSE EmptyDict
        taf_success == Get(parsed_taf, "raw_taf", <<>>) # <<>>
    IN  IF body.raised # "" THEN body
        ELSE IF taf_success
        THEN Return(Append1(Update(weather_data, parsed_taf), "TAF"))
        ELSE Return(Append1(Update(weather_data,
                                   get_fallback_taf_data(weather_data.airport_code)),
                            "FALLBACK_TAF"))

\* Lines 232-249: the PIREP block
after_pirep(weather_data, response) ==
    LET body == except_Exception(fetch_json(response), <<>>)
    IN  IF body.raised # "" THEN body
        ELSE IF body.value # <<>>
        THEN Return(Append1(Update(weather_data, parse_pirep_data(body.value)),
                            "PIREP"))
        ELSE Return(weather_data)

\* Lines 251-262: the SIGMET block
after_sigmet(weather_data, response) ==
    LET body == except_Exception(fetch_json(response), <<>>)
    IN  IF body.raised # "" THEN body
        ELSE IF body.value # <<>>
        THEN Return(Append1(Update(weather_data,
                                   parse_sigmet_data(body.value,
                                                     weather_data.airport_code)),
                            "SIGMET"))
        ELSE Return(weather_data)

\* get_multi_source_weather(airport_code) is called on an object whose models
\* and weather patterns are loaded.
GetMultiSourceWeather ==
    /\ msw.pc = "idle"
    /\ mswRet = EmptyDict
    /\ \E airport_code \in AggregateCodes, models \in ModelSets :
        \E weather_patterns \in WeatherPatterns(airport_code) :
            msw' = [pc               |-> "METAR",
                    models           |-> models,
                    weather_patterns |-> weather_patterns,
                    weather_data     |-> [airport_code |-> airport_code,
                                          timestamp    |-> now,
                                          sources      |-> <<>>],
                    started          |-> now,
                    issued           |-> {},
                    completed        |-> {},
                    failed           |-> {},
                    raised           |-> "",
                    metar            |-> [raised |-> "none"],
                    in_flight        |-> {}]
    /\ UNCHANGED <<mswRet, exceptAggregate>>

\* requests.get is entered for the source the loop body has reached.
IssueFetch ==
    /\ msw.pc \in DOMAIN timeout_of
    /\ msw.in_flight = {}
    /\ msw' = [msw EXCEPT !.issued = @ \cup {msw.pc}, !.in_flight = {msw.pc}]
    /\ UNCHANGED <<mswRet, exceptAggregate>>

\* requests.get has returned or raised and the block of the source has run to
\* its end: the loop body goes on with the weather_data the block leaves, or
\* the call ends with the exception that left the block.
returned(source, response, after) ==
    IF after.raised # ""
    THEN [msw EXCEPT !.pc = "done", !.in_flight = {}, !.raised = after.raised]
    ELSE [msw EXCEPT !.pc = NextSource[source],
                     !.in_flight = {},
                     !.completed = @ \cup {source},
                     !.failed = IF Failed(response) THEN @ \cup {source} ELSE @,
                     !.weather_data = after.value]

ReturnMetar ==
    /\ msw.pc = "METAR"
    /\ msw.in_flight = {"METAR"}
    /\ \E response \in MetarResponses :
        /\ msw' = [returned("METAR", response,
                            after_metar(msw.weather_data, response))
                       EXCEPT !.metar = response]
        /\ now' = now + Latency("METAR", response)
    /\ UNCHANGED <<mswRet, scoreVars, routeVars, trackerVars, monitorVars>>

ReturnTaf ==
    /\ msw.pc = "TAF"
    /\ msw.in_flight = {"TAF"}
    /\ \E response \in TafResponses :
        /\ msw' = returned("TAF", response, after_taf(msw.weather_data, response))
        /\ now' = now + Latency("TAF", response)
    /\ UNCHANGED <<mswRet, scoreVars, routeVars, trackerVars, monitorVars>>

ReturnPirep ==
    /\ msw.pc = "PIREP"
    /\ msw.in_flight = {"PIREP"}
    /\ \E response \in PirepResponses :
        /\ msw' = returned("PIREP", response, after_pirep(msw.weather_data, response))
        /\ now' = now + Latency("PIREP", response)
    /\ UNCHANGED <<mswRet, scoreVars, routeVars, trackerVars, monitorVars>>

ReturnSigmet ==
    /\ msw.pc = "SIGMET"
    /\ msw.in_flight = {"SIGMET"}
    /\ \E response \in SigmetResponses :
        /\ msw' = returned("SIGMET", response, after_sigmet(msw.weather_data, response))
        /\ now' = now + Latency("SIGMET", response)
    /\ UNCHANGED <<mswRet, scoreVars, routeVars, trackerVars, monitorVars>>

\* Lines 264-281: historical context, ML predictions, the result
FinishAggregate ==
    /\ msw.pc = "finish"
    /\ LET airport_code == msw.weather_data.airport_code
           with_history ==
               IF airport_code \in DOMAIN msw.weather_patterns
               THEN Append1(Update(msw.weather_data,
                                   [historical_context |->
                                        msw.weather_patterns[airport_code]]),
                            "HISTORICAL")
               ELSE msw.weather_data
           ml_predictions == generate_ml_predictions(with_history, msw.models)
           with_ml == Update(with_history, [ml_predictions |-> ml_predictions])
       IN  /\ mswRet' = (IF ml_predictions # EmptyDict
                         THEN Append1(with_ml, "ML_MODELS") ELSE with_ml)
           /\ msw' = [msw EXCEPT !.pc = "done"]
    /\ UNCHANGED exceptAggregate

(* flight_safety_system.py: obtain_current_weather *)

BR == <<"B", "R">>

\* _generate_realistic_weather, from what its random draws gave: the
\* temperature and wind, whether np.random.random() < 0.18, the condition
\* chosen and the visibility drawn (tenths of a mile)
realistic_weather(airport_code, draw) ==
    IF airport_code \notin DOMAIN airport_database
    THEN get_standard_weather_conditions
    ELSE IF draw.adverse /\ draw.weather_condition \in {FG, BR}
    THEN generate_realistic_weather(draw.temperature, draw.wind, draw.visibility,
             draw.weather_condition,
             IF draw.visibility < 30 THEN "IFR" ELSE "MVFR")
    ELSE IF draw.adverse /\ draw.weather_condition \in {SN, TSRA}
    THEN generate_realistic_weather(draw.temperature, draw.wind, draw.visibility,
             draw.weather_condition, "MVFR")
    ELSE generate_realistic_weather(draw.temperature, draw.wind, 100,
             IF draw.adverse THEN draw.weather_condition ELSE <<>>, "VFR")

\* Visibility draws inside both np.random.uniform(1.5, 4.5) and (2.5, 6.5)
Draws == [temperature : {12}, wind : {20}, adverse : BOOLEAN, weather_condition : {RA, SN, FG, BR, TSRA}, visibility : {25, 35}]

\* What multi_weather_api.fetch_comprehensive_weather can hand back: an
\* exception, nothing, a record without current conditions, a full record
Fetched ==
    {[raised |-> "ConnectionError"],
     Return(EmptyDict),
     Return([data_sources_used |-> <<>>]),
     Return([current_conditions |-> [temperature_celsius |-> 21, wind_speed_knots |-> 14, flight_category |-> "MVFR"],
             data_sources_used  |-> <<"METAR">>])}

\* obtain_current_weather: the fetch and the processing of what it gave are
\* inside try / except Exception; the synthesized observation follows the
\* block.  Return(snapshot), or the exception that leaves the function.
obtain_current_weather(airport_code, fetched, draw) ==
    LET body == except_Exception(fetched, EmptyDict)
    IN  IF body.raised # "" THEN body
        ELSE IF Get(body.value, "current_conditions", EmptyDict) # EmptyDict
        THEN Return(process_comprehensive_weather_data(
                        body.value.current_conditions,
                        Get(body.value, "risk_assessment", EmptyDict),
                        Get(body.value, "weather_advisories", EmptyDict)))
        ELSE Return(realistic_weather(airport_code, draw))

\* FlightSafetyAssessment.obtain_current_weather(airport_code) is called.
ObtainCurrentWeather ==
    /\ msw.pc = "idle"
    /\ mswRet = EmptyDict
    /\ \E airport_code \in AggregateCodes, fetched \in Fetched, draw \in Draws :
        LET ret == obtain_current_weather(airport_code, fetched, draw)
        IN  /\ msw' = [pc |-> "returned", fn |-> "obtain_current_weather",
                       attempted |-> TRUE, airport_code |-> airport_code,
                       fetched |-> fetched, draw |-> draw,
                       raised |-> ret.raised]
            /\ mswRet' = IF ret.raised = "" THEN ret.value ELSE EmptyDict
    /\ UNCHANGED exceptAggregate

(* api/aviation_weather.py: AviationWeatherAPI *)

\* session.get(...) as response: the exception raised, or the status and the
\* text of the body
XmlResponse(status, text) == [raised |-> "", status |-> status, text |-> text]

AdapterResponses ==
    {ConnectionError, Timeout, XmlResponse(503, "error page"),
     XmlResponse(200, "response"), XmlResponse(200, "malformed")}

\* _parse_metar_xml: ET.ParseError is caught and leaves the dict empty
parse_metar_xml(xml_content) ==
    IF xml_content = "malformed" THEN EmptyDict
    ELSE [KJFK |-> [station_id |-> "KJFK", temperature_celsius |-> 22,
                    wind_speed |-> 12, flight_category |-> "VFR"]]

\* _parse_sigmet_xml
parse_sigmet_xml(xml_content) ==
    IF xml_content = "malformed" THEN <<>>
    ELSE <<[hazard_type |-> "CONVECTIVE", severity |-> "MODERATE"]>>

\* AviationWeatherAPI.get_metar: RuntimeError without a session, else the
\* request inside try / except Exception
get_metar(session, response) ==
    IF ~session THEN [raised |-> "RuntimeError"]
    ELSE except_Exception(
             IF response.raised # "" THEN [raised |-> response.raised]
             ELSE IF response.status = 200
             THEN Return(parse_metar_xml(response.text))
             ELSE Return(EmptyDict),
             EmptyDict)

\* AviationWeatherAPI.get_sigmets
get_sigmets(session, response) ==
    IF ~session THEN [raised |-> "RuntimeError"]
    ELSE except_Exception(
             IF response.raised # "" THEN [raised |-> response.raised]
             ELSE IF response.status = 200
             THEN Return(parse_sigmet_xml(response.text))
             ELSE Return(<<>>),
             <<>>)

\* await api.get_metar(icao_codes)
GetMetar ==
    /\ msw.pc = "idle"
    /\ mswRet = EmptyDict
    /\ \E session \in BOOLEAN, response \in AdapterResponses :
        LET ret == get_metar(session, response)
        IN  /\ msw' = [pc |-> "returned", fn |-> "get_metar",
                       attempted |-> session, response |-> response,
                       raised |-> ret.raised]
            /\ mswRet' = IF ret.raised = "" THEN ret.value ELSE EmptyDict
    /\ UNCHANGED exceptAggregate

\* await api.get_sigmets()
GetSigmets ==
    /\ msw.pc = "idle"
    /\ mswRet = EmptyDict
    /\ \E session \in BOOLEAN, response \in AdapterResponses :
        LET ret == get_sigmets(session, response)
        IN  /\ msw' = [pc |-> "returned", fn |-> "get_sigmets",
                       attempted |-> session, response |-> response,
                       raised |-> ret.raised]
            /\ mswRet' = IF ret.raised = "" THEN ret.value ELSE <<>>
    /\ UNCHANGED exceptAggregate

(* flight_safety_system.py: _initialize_prediction_models *)

\* The predictors whose files model_configurations names
model_configurations == <<"temperature", "wind_speed", "pressure", "turbulence", "icing">>

\* model_file.split('_')[-2].replace('.joblib', ''): the word before
\* 'predictor.joblib'
model_identifier == [temperature |-> "temperature", wind_speed |-> "speed", pressure |-> "pressure", turbulence |-> "turbulence", icing |-> "icing"]

\* _create_fallback_model: a new estimator that was never fitted
create_fallback_model(model_type) ==
    [trained   |-> FALSE,
     estimator |-> IF model_type \in {"temperature", "pressure", "wind_speed", "turbulence", "icing"}
                   THEN "RandomForestRegressor"
                   ELSE "GradientBoostingClassifier"]

\* self.models after the loop over model_configurations, given the predictors
\* whose files joblib.load finds
initialize_prediction_models(files) ==
    [id \in {model_identifier[f] : f \in Range(model_configurations)} |->
        LET f == CHOOSE g \in Range(model_configurations) : model_identifier[g] = id
        IN  IF f \in files
            THEN [trained |-> TRUE, estimator |-> "joblib"]
            ELSE create_fallback_model(id)]

\* FlightSafetyAssessment(): the constructor initializes the models.
InitializePredictionModels ==
    /\ msw.pc = "idle"
    /\ mswRet = EmptyDict
    /\ \E files \in SUBSET Range(model_configurations) :
        msw' = [pc |-> "returned", fn |-> "_initialize_prediction_models",
                attempted |-> FALSE, raised |-> "", files |-> files,
                models |-> initialize_prediction_models(files)]
    /\ UNCHANGED <<mswRet, exceptAggregate>>

AggregateNext ==
    \/ ObtainCurrentWeather
    \/ GetMetar
    \/ GetSigmets
    \/ InitializePredictionModels
    \/ GetMultiSourceWeather
    \/ IssueFetch
    \/ ReturnMetar
    \/ ReturnTaf
    \/ ReturnPirep
    \/ ReturnSigmet
    \/ FinishAggregate

SpecAggregate == Init /\ [][AggregateNext]_vars


---------------------------------------------------------------------------
(* C11 *)

\* Where a call of get_multi_source_weather can be
AggregatePcs == DOMAIN NextSource \cup {"finish", "done"}

\* The largest timeout= of the four fetches
SlowestTimeout ==
    CHOOSE t \in Range(timeout_of) : \A u \in Range(timeout_of) : u <= t

\* C11: the four fetches for one airport are issued concurrently: once any
\* fetch has been waited on to completion all four have been started, and the
\* call never spends longer in its fetches than the slowest single timeout.
C11_FetchesIssuedConcurrently ==
    msw.pc \in AggregatePcs =>
        /\ msw.completed # {} => msw.issued = DOMAIN timeout_of
        /\ now - msw.started <= SlowestTimeout


---------------------------------------------------------------------------
(* C12 *)

FallbackTags == {"FALLBACK_METAR", "FALLBACK_TAF", "FALLBACK"}

\* The sources list of a snapshot is there, not empty, and has a fallback tag
CarriesFallbackTag(snapshot) ==
    /\ "sources" \in DOMAIN snapshot
    /\ snapshot.sources # <<>>
    /\ Range(snapshot.sources) \cap FallbackTags # {}

NumericFields == {"temperature_celsius", "wind_speed_knots", "visibility_statute_miles", "barometric_pressure_inhg"}

NumericFieldsNonNull(snapshot) ==
    \A k \in NumericFields : k \in DOMAIN snapshot /\ snapshot[k] \in Int

\* Every source of get_multi_source_weather failed and the call has returned
AggregateAllFailed == msw.pc = "done" /\ msw.failed = DOMAIN timeout_of

\* The multi-source fetch of obtain_current_weather gave nothing
ObtainAllFailed ==
    /\ msw.pc = "returned"
    /\ msw.fn = "obtain_current_weather"
    /\ msw.fetched.raised # "" \/ msw.fetched.value = EmptyDict

\* The adverse-weather branch of the synthesized observation was taken
AdverseBranch ==
    /\ msw.pc = "returned"
    /\ msw.fn = "obtain_current_weather"
    /\ msw.airport_code \in DOMAIN airport_database
    /\ msw.draw.adverse

\* C12: when every weather source failed the snapshot returned has a sources
\* list that is not empty and carries a fallback tag, its temperature, wind,
\* visibility and pressure are all numbers, and its flight_category is VFR
\* unless the adverse branch of the synthesized observation was taken.
C12_AllSourcesFailedSnapshot ==
    AggregateAllFailed \/ ObtainAllFailed =>
        /\ CarriesFallbackTag(mswRet)
        /\ NumericFieldsNonNull(mswRet)
        /\ mswRet.flight_category = "VFR" \/ AdverseBranch

\* The same for the snapshots of get_multi_source_weather alone
AggregateFallbackSnapshot ==
    AggregateAllFailed =>
        /\ CarriesFallbackTag(mswRet)
        /\ NumericFieldsNonNull(mswRet)
        /\ mswRet.flight_category = "VFR"


---------------------------------------------------------------------------
(* C13 *)

---------------------------------------------------------------------------
(* C14 *)

\* The numeric fields of a provider record and the snapshot keys they fill
SnapshotKey == [temp |-> "temperature_celsius", wspd |-> "wind_speed_knots", wdir |-> "wind_direction_degrees", altim |-> "barometric_pressure_inhg", visib |-> "visibility_statute_miles"]

\* The text of a field with the suffixes the visibility grammar allows removed
Stripped(k, s) ==
    IF k = "visib" THEN str_remove(str_remove(s, <<"+">>), <<"S", "M">>) ELSE s

\* The value of field k is there and is not a number in any accepted form
Unparsable(record, k) ==
    /\ k \in DOMAIN record
    /\ record[k].t = "str"
    /\ record[k].s # <<>>
    /\ float(Str(Stripped(k, record[k].s))).raised # ""

\* The METAR record the call received, when it received one
ReceivedMetar ==
    /\ msw.pc \in AggregatePcs \ {"METAR"}
    /\ msw.metar.raised = ""
    /\ msw.metar.status_code = 200
    /\ msw.metar.decodes
    /\ msw.metar.json # <<>>

\* The snapshot being built, or the one returned
Snapshot == IF msw.pc = "done" /\ msw.raised = "" THEN mswRet ELSE msw.weather_data

\* The record has exactly one unparsable field, k
OnlyUnparsable(record, k) ==
    /\ Unparsable(record, k)
    /\ \A j \in DOMAIN SnapshotKey \ {k} :
           j \in DOMAIN record /\ float(record[j]).raised = ""

\* C14: a METAR record with one unparsable field is still the observation of
\* the snapshot (source tag METAR, no exception), and every other numeric
\* field of the snapshot is the parsed value of the record.
C14_OnlyTheBadFieldDefaulted ==
    ReceivedMetar =>
        \A k \in DOMAIN SnapshotKey :
            OnlyUnparsable(msw.metar.json[1], k) =>
                /\ msw.raised = ""
                /\ "METAR" \in Range(Snapshot.sources)
                /\ \A j \in DOMAIN SnapshotKey \ {k} :
                       Snapshot[SnapshotKey[j]] = float(msw.metar.json[1][j]).value

\* The same for the fields converted inside a try block of their own
GuardedFieldDefaulted ==
    ReceivedMetar =>
        \A k \in DOMAIN SnapshotKey :
            /\ OnlyUnparsable(msw.metar.json[1], k)
            /\ ~ AnyIn(<<<<"+">>, <<"S", "M">>>>, msw.metar.json[1][k].s)
            => /\ msw.raised = ""
               /\ "METAR" \in Range(Snapshot.sources)
               /\ \A j \in DOMAIN SnapshotKey \ {k} :
                      Snapshot[SnapshotKey[j]] = float(msw.metar.json[1][j]).value


---------------------------------------------------------------------------
(* C15 *)

\* The defaults of the claim: 15 C, 10 kt, 270 degrees, 30.00 inHg, 10.0 mi
DocumentedDefault == [temp |-> 15, wspd |-> 10, wdir |-> 270, altim |-> 3000, visib |-> 100]

\* C15: when the parsed METAR record is the observation of the snapshot, each
\* numeric field the record gave in an unparsable form has exactly its
\* documented default.
C15_ExactDefaults ==
    ReceivedMetar /\ "METAR" \in Range(Snapshot.sources) =>
        \A k \in DOMAIN SnapshotKey :
            Unparsable(msw.metar.json[1], k) =>
                Snapshot[SnapshotKey[k]] = DocumentedDefault[k]

\* The same without the wind speed
DefaultsOtherThanWind ==
    ReceivedMetar /\ "METAR" \in Range(Snapshot.sources) =>
        \A k \in DOMAIN SnapshotKey \ {"wspd"} :
            Unparsable(msw.metar.json[1], k) =>
                Snapshot[SnapshotKey[k]] = DocumentedDefault[k]


---------------------------------------------------------------------------
(* C16 *)

\* C16: no scoring call ends with an exception, whatever snapshot and
\* predictions it is given.
C16_NoComputationRaises ==
    "raised" \in DOMAIN scoreRet => scoreRet.raised = ""


---------------------------------------------------------------------------
(* C17 *)

\* The keys each predictor of _generate_ml_predictions stores
KeysOf == [temperature_predictor    |-> {"predicted_temperature", "temperature_confidence"},
           wind_speed_predictor     |-> {"predicted_wind_speed", "wind_data_sources"},
           wind_direction_predictor |-> {"predicted_wind_direction"},
           pressure_predictor       |-> {"predicted_pressure"},
           turbulence_predictor     |-> {"turbulence_risk", "turbulence_score", "turbulence_reports"},
           icing_predictor          |-> {"icing_risk", "icing_score", "icing_reports"},
           weather_classifier       |-> {"predicted_weather", "weather_alerts"}]

\* The predictor is not loaded, or its predict() throws
Unavailable(models, n) == n \notin DOMAIN models \/ models[n].raised # ""

\* The prediction result has none of the keys of the unavailable predictors
UnavailableKeysOmitted ==
    msw.pc = "done" /\ msw.raised = "" =>
        \A n \in PredictorNames :
            Unavailable(msw.models, n) =>
                DOMAIN mswRet.ml_predictions \cap KeysOf[n] = {}

\* No model stands in for a predictor whose file is missing
NoSubstituteModel ==
    msw.pc = "returned" /\ msw.fn = "_initialize_prediction_models" =>
        \A f \in Range(model_configurations) \ msw.files :
            model_identifier[f] \notin DOMAIN msw.models

\* C17: a predictor that is missing or throws leaves no key in the prediction
\* result and raises nothing, and no substitute model is built in its place.
C17_MissingPredictorOmitted ==
    /\ UnavailableKeysOmitted
    /\ NoSubstituteModel


---------------------------------------------------------------------------
(* flight_safety_system.py: two assessments of one flight (SpecRescore) *)

\* conduct_safety_assessment, given the snapshots obtain_current_weather
\* returned for the two airports and the values drawn or predicted inside
\* _perform_ml_route_analysis.  traditional_assessment is the local of
\* _evaluate_enhanced_safety_risks that holds what _evaluate_safety_risks
\* returned.
conduct_safety_assessment(departure_airport, arrival_airport, departure_weather, arrival_weather, turbulence, icing) ==
    LET route_analysis ==
            analyze_flight_route(departure_airport, arrival_airport,
                                 turbulence, icing)
    IN  [departure_airport_code |-> departure_airport,
         arrival_airport_code   |-> arrival_airport,
         departure_conditions   |-> departure_weather,
         arrival_conditions     |-> arrival_weather,
         route_assessment       |-> route_analysis,
         safety_evaluation      |->
             evaluate_enhanced_safety_risks(departure_weather, arrival_weather,
                                            route_analysis),
         traditional_assessment |->
             evaluate_safety_risks(departure_weather, arrival_weather,
                                   route_analysis)]

AssessedCodes == {"KJFK", "KLAX", "ZZZZ"}

\* The first assessment of a flight
Assess ==
    /\ scoreCall.fn = "none"
    /\ \E departure_airport \in AssessedCodes, arrival_airport \in AssessedCodes,
          dep \in CoreSnapshots, arr \in CoreSnapshots,
          t \in Turbulences, i \in Icings :
        /\ scoreCall' = [fn |-> "conduct_safety_assessment",
                         departure_airport |-> departure_airport,
                         arrival_airport   |-> arrival_airport,
                         departure_weather |-> dep,
                         arrival_weather   |-> arr]
        /\ scoreRet' = <<conduct_safety_assessment(departure_airport,
                             arrival_airport, dep, arr, t, i)>>
    /\ UNCHANGED exceptScore

\* The same flight is assessed again while the weather has not changed:
\* obtain_current_weather gives the same two snapshots.
AssessAgain ==
    /\ scoreCall.fn = "conduct_safety_assessment"
    /\ Len(scoreRet) = 1
    /\ \E t \in Turbulences, i \in Icings :
        scoreRet' = Append(scoreRet,
                           conduct_safety_assessment(scoreCall.departure_airport,
                               scoreCall.arrival_airport,
                               scoreCall.departure_weather,
                               scoreCall.arrival_weather, t, i))
    /\ UNCHANGED <<scoreCall, exceptScore>>

RescoreNext ==
    \/ Assess
    \/ AssessAgain

SpecRescore == Init /\ [][RescoreNext]_vars

---------------------------------------------------------------------------
(* C18 *)

AssessedTwice == scoreCall.fn = "conduct_safety_assessment" /\ Len(scoreRet) = 2

\* C18: two assessments of the same route under the same two weather
\* snapshots score alike: _evaluate_safety_risks gives both the same score,
\* classification and recommendation.
C18_ScoringIdempotent ==
    AssessedTwice =>
        LET a == scoreRet[1].traditional_assessment
            b == scoreRet[2].traditional_assessment
        IN  /\ a.composite_risk_score = b.composite_risk_score
            /\ a.safety_classification = b.safety_classification
            /\ a.operational_recommendation = b.operational_recommendation

\* The evaluation the report carries is the same in both assessments
ReportedEvaluationSame ==
    AssessedTwice => scoreRet[1].safety_evaluation = scoreRet[2].safety_evaluation


---------------------------------------------------------------------------
(* services/route_service.py and main.py: multi-leg routes (SpecMultiLeg) *)

\* The legs of calculate_multi_leg_route: consecutive pairs, and the pair
\* (last, first) when circular
legs_of(airports, circular) ==
    [i \in 1..(Len(airports) - 1) |-> <<airports[i], airports[i + 1]>>]
    \o (IF circular THEN <<<<airports[Len(airports)], airports[1]>>>> ELSE <<>>)

\* The loop over enumerate(legs), from leg index on (index 1 is the first):
\* the merged coordinates, the distance in metres and the segment summaries,
\* or the exception of the leg that failed.
\* The same loop extending all_coords by every point of every leg
RECURSIVE concatenate_legs(_, _, _)
concatenate_legs(legs, index, acc) ==
    IF index > Len(legs) THEN Return(acc)
    ELSE LET origin  == legs[index][1]
             dest    == legs[index][2]
             segment == calculate_great_circle_route(origin, dest)
         IN  IF segment.raised # "" THEN segment
             ELSE concatenate_legs(legs, index + 1,
                    [all_coords |->
                         Extend(acc.all_coords, segment.value.coordinates),
                     total_distance_meters |->
                         acc.total_distance_meters + segment.value.distance_km,
                     segments |->
                         Append(acc.segments,
                                [origin      |-> origin,
                                 destination |-> dest,
                                 distance_km |-> segment.value.distance_km,
                                 distance_nm |-> segment.value.distance_nm,
                                 points      |-> segment.value.total_points])])

RECURSIVE merge_legs(_, _, _)
merge_legs(legs, index, acc) ==
    IF index > Len(legs) THEN Return(acc)
    ELSE LET origin  == legs[index][1]
             dest    == legs[index][2]
             segment == calculate_great_circle_route(origin, dest)
         IN  IF segment.raised # "" THEN segment
             ELSE merge_legs(legs, index + 1,
                    [all_coords |->
                         Extend(acc.all_coords,
                                IF index = 1 THEN segment.value.coordinates
                                ELSE Tail(segment.value.coordinates)),
                     total_distance_meters |->
                         acc.total_distance_meters + segment.value.distance_km,
                     segments |->
                         Append(acc.segments,
                                [origin      |-> origin,
                                 destination |-> dest,
                                 distance_km |-> segment.value.distance_km,
                                 distance_nm |-> segment.value.distance_nm,
                                 points      |-> segment.value.total_points])])

\* The route with its distance taken between the first and the last airport
route_between_endpoints(airports, circular) ==
    IF Len(airports) < 2
    THEN ValueError(<<"At least two airports are required">>)
    ELSE LET merged == merge_legs(legs_of(airports, circular), 1,
                                  [all_coords |-> <<>>,
                                   total_distance_meters |-> 0,
                                   segments |-> <<>>])
             direct == geod_inv(get_coords(airports[1]),
                                get_coords(airports[Len(airports)]))
         IN  IF merged.raised # "" THEN merged
             ELSE Return([coordinates  |-> merged.value.all_coords,
                          distance_km  |-> direct,
                          distance_nm  |-> (direct * 100) \div 1852,
                          total_points |-> Len(merged.value.all_coords),
                          segments     |-> merged.value.segments])

\* RouteService.calculate_multi_leg_route
calculate_multi_leg_route(airports, circular) ==
    IF Len(airports) < 2
    THEN ValueError(<<"At least two airports are required">>)
    ELSE LET merged == merge_legs(legs_of(airports, circular), 1,
                                  [all_coords |-> <<>>,
                                   total_distance_meters |-> 0,
                                   segments |-> <<>>])
         IN  IF merged.raised # "" THEN merged
             ELSE Return([coordinates  |-> merged.value.all_coords,
                          distance_km  |-> merged.value.total_distance_meters,
                          distance_nm  |->
                              (merged.value.total_distance_meters * 100) \div 1852,
                          total_points |-> Len(merged.value.all_coords),
                          segments     |-> merged.value.segments])

\* main.py get_multi_leg_route (POST /api/route/multi-leg): an HTTPException
\* raised in the try block is raised again, any other exception becomes the
\* 500.
get_multi_leg_route(request) ==
    IF Len(request.icao_codes) < 2
    THEN HTTPException(400, <<"At least 2 airports required">>)
    ELSE IF Len(request.icao_codes) > 10
    THEN HTTPException(400, <<"Maximum 10 airports allowed">>)
    ELSE IF \E i \in DOMAIN request.icao_codes : Len(request.icao_codes[i]) # 4
    THEN HTTPException(400, <<"Invalid ICAO code">>)
    ELSE LET last == request.icao_codes[Len(request.icao_codes)]
             icao_codes == IF request.circular /\ request.icao_codes[1] # last
                           THEN Append(request.icao_codes, request.icao_codes[1])
                           ELSE request.icao_codes
             data == calculate_multi_leg_route(icao_codes, request.circular)
         IN  IF data.raised # ""
             THEN HTTPException(500, <<"Internal server error">>)
             ELSE Return([icao_codes        |-> request.icao_codes,
                          circular          |-> request.circular,
                          total_distance_km |-> data.value.distance_km,
                          total_distance_nm |-> data.value.distance_nm,
                          total_points      |-> data.value.total_points,
                          segments          |-> data.value.segments])

\* The loop of generate_multi_icao_flight_plan over the legs of route_codes,
\* from leg i on: the flight_legs, or the exception of the leg that failed.
RECURSIVE flight_legs_from(_, _, _)
flight_legs_from(route_codes, i, flight_legs) ==
    IF i > Len(route_codes) - 1 THEN Return(flight_legs)
    ELSE LET leg_flight_plan == generate_flight_plan(route_codes[i],
                                                      route_codes[i + 1])
         IN  IF leg_flight_plan.raised # "" THEN leg_flight_plan
             ELSE flight_legs_from(route_codes, i + 1,
                    Append(flight_legs,
                           [leg_number  |-> i,
                            origin      |-> route_codes[i],
                            destination |-> route_codes[i + 1],
                            distance_nm |-> leg_flight_plan.value.route.distance_nm,
                            estimated_time_min |->
                                leg_flight_plan.value.route.estimated_time_min]))

\* main.py generate_multi_icao_flight_plan (POST /api/flightplan/generate).
\* The whole body is in one try block: a ValueError becomes the 400, every
\* other exception, the HTTPExceptions of the validation among them, the 500.
generate_multi_icao_flight_plan(request) ==
    LET icao_codes == [i \in DOMAIN request.icao_codes |->
                           upper(request.icao_codes[i])]
    IN  IF \E i \in DOMAIN icao_codes : Len(icao_codes[i]) # 4
        THEN HTTPException(500, <<"Internal server error: 400">>)
        ELSE IF Len(icao_codes) < 2
        THEN HTTPException(500, <<"Internal server error: 400">>)
        ELSE LET route_codes == IF request.circular /\ Len(icao_codes) > 2
                                THEN Append(icao_codes, icao_codes[1])
                                ELSE icao_codes
                 flight_legs == flight_legs_from(route_codes, 1, <<>>)
                 multi_leg_data ==
                     calculate_multi_leg_route(icao_codes, request.circular)
             IN  IF flight_legs.raised # ""
                 THEN HTTPException(400, flight_legs.message)
                 ELSE IF multi_leg_data.raised # ""
                 THEN HTTPException(400, multi_leg_data.message)
                 ELSE Return(
                     [success |-> TRUE,
                      data    |->
                          [overview |->
                               [icao_codes |-> icao_codes,
                                circular   |-> request.circular,
                                total_legs |-> Len(flight_legs.value)],
                           route_coordinates |->
                               [coordinates  |-> multi_leg_data.value.coordinates,
                                total_points |-> multi_leg_data.value.total_points],
                           flight_legs |-> flight_legs.value]])

\* Longest list of airports of a request
MaxAirports == 3

MultiLegCodes == {"KJFK", "KLAX", "ZZZZ"}

AirportLists == UNION {[1..n -> MultiLegCodes] : n \in 1..MaxAirports}

CalculateMultiLegRoute ==
    /\ routeCall.fn = "none"
    /\ \E airports \in AirportLists, circular \in BOOLEAN :
        /\ routeCall' = [fn |-> "calculate_multi_leg_route",
                         icao_codes |-> airports, circular |-> circular]
        /\ routeRet' = calculate_multi_leg_route(airports, circular)
    /\ UNCHANGED exceptRoute

GetMultiLegRoute ==
    /\ routeCall.fn = "none"
    /\ \E icao_codes \in AirportLists, circular \in BOOLEAN :
        /\ routeCall' = [fn |-> "get_multi_leg_route",
                         icao_codes |-> icao_codes, circular |-> circular]
        /\ routeRet' = get_multi_leg_route([icao_codes |-> icao_codes,
                                            circular   |-> circular])
    /\ UNCHANGED exceptRoute

GenerateMultiIcaoFlightPlan ==
    /\ routeCall.fn = "none"
    /\ \E icao_codes \in AirportLists, circular \in BOOLEAN :
        /\ routeCall' = [fn |-> "generate_multi_icao_flight_plan",
                         icao_codes |-> icao_codes, circular |-> circular]
        /\ routeRet' = generate_multi_icao_flight_plan(
                           [icao_codes |-> icao_codes, circular |-> circular])
    /\ UNCHANGED exceptRoute

\* ultimate_aviation_system.py generate_in_flight_weather_forecast, as far as
\* generate_multi_airport_briefing reads it.  weather[code] is the dict
\* get_multi_source_weather returns for the code.
generate_in_flight_weather_forecast(departure, arrival, weather) ==
    [route_info        |-> estimate_flight_parameters(departure, arrival),
     departure_weather |-> weather[departure],
     arrival_weather   |-> weather[arrival]]

\* The loop of generate_multi_airport_briefing over the legs, from leg i on
RECURSIVE briefing_legs(_, _, _, _)
briefing_legs(airports, i, weather, acc) ==
    IF i > Len(airports) - 1 THEN Return(acc)
    ELSE LET dep == airports[i]
             arr == airports[i + 1]
             leg_analysis == generate_in_flight_weather_forecast(dep, arr, weather)
             dep_risk == calculate_comprehensive_risk_score(
                             leg_analysis.departure_weather)
             arr_risk == calculate_comprehensive_risk_score(
                             leg_analysis.arrival_weather)
         IN  IF dep_risk.raised # "" THEN [raised |-> dep_risk.raised]
             ELSE IF arr_risk.raised # "" THEN [raised |-> arr_risk.raised]
             ELSE LET leg_info ==
                          [leg_number     |-> i,
                           departure      |-> dep,
                           arrival        |-> arr,
                           route_analysis |-> leg_analysis,
                           max_leg_risk   |->
                               Max(dep_risk.total_risk_score,
                                   arr_risk.total_risk_score)]
                  IN  briefing_legs(airports, i + 1, weather,
                        [route_legs     |-> Append(acc.route_legs, leg_info),
                         total_distance |->
                             acc.total_distance
                               + leg_analysis.route_info.distance_nm,
                         total_duration |->
                             acc.total_duration
                               + leg_analysis.route_info.duration_hours])

\* UltimateAviationWeatherSystem.generate_multi_airport_briefing
generate_multi_airport_briefing(airports, weather) ==
    LET looped == briefing_legs(airports, 1, weather,
                                [route_legs |-> <<>>, total_distance |-> 0,
                                 total_duration |-> 0])
    IN  IF looped.raised # "" THEN looped
        ELSE Return([route_info |->
                         [airports             |-> airports,
                          total_legs           |-> Len(looped.value.route_legs),
                          total_distance_nm    |-> looped.value.total_distance,
                          total_duration_hours |-> looped.value.total_duration],
                     route_legs |-> looped.value.route_legs])

\* The dicts of get_multi_source_weather the briefing is run on: without
\* predictions, and with a turbulence prediction.
BriefingWeather ==
    {MultiSourceWeather(15, 50, "VFR", 3000, 15, ml,
                        [present |-> FALSE, avg_temperature |-> 0]) :
        ml \in {EmptyDict,
                [overall_flight_safety |-> "LOW", turbulence_risk |-> "HIGH"]}}

GenerateMultiAirportBriefing ==
    /\ routeCall.fn = "none"
    /\ \E airports \in AirportLists, weather \in [MultiLegCodes -> BriefingWeather] :
        /\ routeCall' = [fn |-> "generate_multi_airport_briefing",
                         icao_codes |-> airports, circular |-> FALSE,
                         weather |-> weather]
        /\ routeRet' = generate_multi_airport_briefing(airports, weather)
    /\ UNCHANGED exceptRoute

MultiLegNext ==
    \/ CalculateMultiLegRoute
    \/ GetMultiLegRoute
    \/ GenerateMultiIcaoFlightPlan
    \/ GenerateMultiAirportBriefing

SpecMultiLeg == Init /\ [][MultiLegNext]_vars


---------------------------------------------------------------------------
(* C19 *)

\* For airports A0 .. Ak: the k forward legs, then the closing leg (Ak, A0)
CircularLegs(airports) ==
    [i \in 1..Len(airports) |->
        IF i < Len(airports) THEN <<airports[i], airports[i + 1]>>
        ELSE <<airports[Len(airports)], airports[1]>>]

\* The legs of the route a multi-leg call returned
ReturnedLegs ==
    LET listed == IF routeCall.fn = "generate_multi_icao_flight_plan"
                  THEN routeRet.value.data.flight_legs
                  ELSE routeRet.value.segments
    IN  [i \in DOMAIN listed |-> <<listed[i].origin, listed[i].destination>>]

\* A circular route of at least two airports was asked for and returned
CircularReturned(fns) ==
    /\ routeCall.fn \in fns
    /\ routeCall.circular
    /\ Len(routeCall.icao_codes) >= 2
    /\ routeRet.raised = ""

MultiLegEntryPoints == {"calculate_multi_leg_route", "get_multi_leg_route", "generate_multi_icao_flight_plan"}

\* C19: with the circular flag set the route of airports A0 .. Ak has exactly
\* the k forward legs followed by one closing leg (Ak, A0), at every entry
\* point that takes the flag and for every list of at least two airports.
C19_CircularClosesOnce ==
    CircularReturned(MultiLegEntryPoints) =>
        ReturnedLegs = CircularLegs(routeCall.icao_codes)

\* The same for the route service alone
ServiceClosesOnce ==
    CircularReturned({"calculate_multi_leg_route"}) =>
        ReturnedLegs = CircularLegs(routeCall.icao_codes)


---------------------------------------------------------------------------
(* C20 *)

\* A multi-leg route was returned with its point count and segment summaries
RouteReturned(fns) ==
    /\ routeCall.fn \in fns
    /\ routeRet.raised = ""

\* The per-leg point counts of the returned route
PointsPerLeg == [i \in DOMAIN routeRet.value.segments |-> routeRet.value.segments[i].points]

\* Position in the concatenated list of the junction that ends leg j
JunctionIndex(j) == SumSeq(SubSeq(PointsPerLeg, 1, j)) - (j - 1)

\* The junction that ends leg j is in the list once, followed by the second
\* point of leg j + 1.
JunctionOnce(j) ==
    LET coordinates == routeRet.value.coordinates
        ended       == routeRet.value.segments[j]
        next        == routeRet.value.segments[j + 1]
        next_leg    == calculate_great_circle_route(next.origin, next.destination)
    IN  /\ coordinates[JunctionIndex(j)] = get_coords(ended.destination)
        /\ coordinates[JunctionIndex(j) + 1] = next_leg.value.coordinates[2]

\* C20: a multi-leg route of L legs has (sum of the per-leg point counts)
\* - (L - 1) points, the leading point of every leg after the first being
\* dropped, so that every internal junction is in the list once.
C20_JunctionPointsOnce ==
    /\ RouteReturned({"calculate_multi_leg_route", "get_multi_leg_route"}) =>
           routeRet.value.total_points
               = SumSeq(PointsPerLeg) - (Len(routeRet.value.segments) - 1)
    /\ RouteReturned({"calculate_multi_leg_route"}) =>
           /\ Len(routeRet.value.coordinates) = routeRet.value.total_points
           /\ \A j \in 1..(Len(routeRet.value.segments) - 1) : JunctionOnce(j)

\* A route of three legs was returned by the route service
C20_Witness ==
    /\ RouteReturned({"calculate_multi_leg_route"})
    /\ Len(routeRet.value.segments) = 3
    /\ routeRet.value.total_points = 3 * num_points - 2


---------------------------------------------------------------------------
(* C21 *)

\* The distances of the legs of the returned route, in metres
LegMetres == [i \in DOMAIN routeRet.value.segments |-> routeRet.value.segments[i].distance_km]

\* The distances of the legs of the returned route, in hundredths of a
\* nautical mile
LegNauticalMiles == [i \in DOMAIN routeRet.value.segments |-> routeRet.value.segments[i].distance_nm]

\* The distances of the legs of the returned briefing, in nautical miles
BriefingLegMiles == [i \in DOMAIN routeRet.value.route_legs |-> routeRet.value.route_legs[i].route_analysis.route_info.distance_nm]

\* C21: the total distance of a multi-leg route is the sum of the distances
\* computed for its legs one by one, in km and in nm (the nm total is the
\* summed metres converted, which is the sum of the legs' nm up to the
\* truncation of each leg's own conversion); it is not taken from the first
\* and last endpoint of the route.
C21_TotalIsSumOfLegs ==
    /\ RouteReturned({"calculate_multi_leg_route"}) =>
           /\ routeRet.value.distance_km = SumSeq(LegMetres)
           /\ routeRet.value.distance_nm = (SumSeq(LegMetres) * 100) \div 1852
           /\ routeRet.value.distance_nm - SumSeq(LegNauticalMiles)
                  \in 0..(Len(LegMetres) - 1)
    /\ RouteReturned({"get_multi_leg_route"}) =>
           /\ routeRet.value.total_distance_km = SumSeq(LegMetres)
           /\ routeRet.value.total_distance_nm = (SumSeq(LegMetres) * 100) \div 1852
    /\ RouteReturned({"generate_multi_airport_briefing"}) =>
           routeRet.value.route_info.total_distance_nm = SumSeq(BriefingLegMiles)

\* A route out and back was returned: its endpoints coincide and its total
\* distance is twice the leg's.
C21_Witness ==
    /\ RouteReturned({"calculate_multi_leg_route"})
    /\ routeCall.icao_codes = <<"KJFK", "KLAX", "KJFK">>
    /\ ~routeCall.circular
    /\ routeRet.value.distance_km = 2 * geod_inv(get_coords("KJFK"), get_coords("KLAX"))

\* A briefing of two legs was returned
BriefingOfTwoLegs ==
    /\ RouteReturned({"generate_multi_airport_briefing"})
    /\ routeRet.value.route_info.total_legs = 2
    /\ routeRet.value.route_info.total_distance_nm > 0


---------------------------------------------------------------------------
(* C22 *)

\* Wind speeds on both sides of every threshold the scoring code tests
WindSteps == {0, 15, 16, 25, 26, 35, 36, 60}

\* The snapshot with its wind speed raised to one of the steps
Stronger(weather, wind_speed) == [weather EXCEPT !["wind_speed_knots"] = wind_speed]

StrongerWinds(weather) == {w \in WindSteps : w >= weather["wind_speed_knots"]}

\* _evaluate_safety_risks: raising the departure or the arrival wind
TraditionalMonotone ==
    scoreCall.fn = "_evaluate_safety_risks" =>
        LET dep   == scoreCall.dep_weather
            arr   == scoreCall.arr_weather
            route == scoreCall.route_info
        IN  /\ \A w \in StrongerWinds(dep) :
                 evaluate_safety_risks(Stronger(dep, w), arr, route).composite_risk_score
                     >= scoreRet.composite_risk_score
            /\ \A w \in StrongerWinds(arr) :
                 evaluate_safety_risks(dep, Stronger(arr, w), route).composite_risk_score
                     >= scoreRet.composite_risk_score

\* _evaluate_enhanced_safety_risks, as conduct_safety_assessment reports it
EnhancedMonotone ==
    scoreCall.fn = "conduct_safety_assessment" =>
        LET dep   == scoreRet.departure_conditions
            arr   == scoreRet.arrival_conditions
            route == scoreRet.route_assessment
        IN  /\ \A w \in StrongerWinds(dep) :
                 evaluate_enhanced_safety_risks(Stronger(dep, w), arr, route).risk_score
                     >= scoreRet.safety_evaluation.risk_score
            /\ \A w \in StrongerWinds(arr) :
                 evaluate_enhanced_safety_risks(dep, Stronger(arr, w), route).risk_score
                     >= scoreRet.safety_evaluation.risk_score

\* calculate_comprehensive_risk_score, where it returns
ComprehensiveMonotone ==
    (scoreCall.fn = "calculate_comprehensive_risk_score" /\ scoreRet.raised = "") =>
        \A w \in StrongerWinds(scoreCall.weather_data) :
            calculate_comprehensive_risk_score(
                Stronger(scoreCall.weather_data, w)).total_risk_score
                >= scoreRet.total_risk_score

\* C22: with every other input fixed, a higher wind speed of the departure
\* or of the arrival snapshot never gives a lower total risk score; the
\* score just above 35 kt is at least the score at 35 kt.
C22_WindMonotone == TraditionalMonotone /\ EnhancedMonotone /\ ComprehensiveMonotone

\* Scored at 35 kt of departure wind, where 36 kt scores 28 more
C22_Witness ==
    /\ scoreCall.fn = "_evaluate_safety_risks"
    /\ scoreCall.dep_weather["wind_speed_knots"] = 35
    /\ evaluate_safety_risks(Stronger(scoreCall.dep_weather, 36),
                             scoreCall.arr_weather,
                             scoreCall.route_info).composite_risk_score
           = scoreRet.composite_risk_score + 28

\* Scored at 25 kt by calculate_comprehensive_risk_score, where 26 kt scores
\* more
ComprehensiveStep ==
    /\ scoreCall.fn = "calculate_comprehensive_risk_score"
    /\ scoreRet.raised = ""
    /\ scoreCall.weather_data["wind_speed_knots"] = 25
    /\ calculate_comprehensive_risk_score(
           Stronger(scoreCall.weather_data, 26)).total_risk_score
           > scoreRet.total_risk_score


---------------------------------------------------------------------------
(* flight_safety_system.py: the weather along a route (SpecRouteWeather) *)

\* FlightSafetyAssessment.get_airport_coordinates: the database entry, else
\* the entry of the fallback table, else [40.0, -74.0]
get_airport_coordinates(airport_code) ==
    IF airport_code \in DOMAIN airport_database
    THEN <<airport_database[airport_code].latitude,
           airport_database[airport_code].longitude>>
    ELSE Get(airport_coords, airport_code, <<400000, -740000>>)

\* interpolate_position at progress tenths / 10
interpolate_position(start_coords, end_coords, tenths) ==
    <<start_coords[1] + Round((end_coords[1] - start_coords[1]) * tenths, 10),
      start_coords[2] + Round((end_coords[2] - start_coords[2]) * tenths, 10)>>

\* The airports the distances of the model are taken to
Measured == <<"KJFK", "KLAX", "KORD", "KDEN">>

\* Great-circle distance in km (Haversine, R = 6371) from the points of the
\* route KJFK - KLAX at every tenth of the way to the airports of Measured,
\* in that order.
great_circle_km ==
    (<<406413, -737781>> :> <<0, 3974, 1188, 2610>>) @@
    (<<399714, -782411>> :> <<386, 3600, 841, 2246>>) @@
    (<<393015, -827041>> :> <<775, 3220, 530, 1879>>) @@
    (<<386317, -871671>> :> <<1167, 2834, 377, 1511>>) @@
    (<<379618, -916301>> :> <<1562, 2443, 547, 1147>>) @@
    (<<372919, -960931>> :> <<1959, 2046, 873, 798>>) @@
    (<<366220, -1005561>> :> <<2359, 1645, 1239, 508>>) @@
    (<<359521, -1050191>> :> <<2761, 1240, 1620, 435>>) @@
    (<<352823, -1094821>> :> <<3164, 830, 2010, 662>>) @@
    (<<346124, -1139451>> :> <<3569, 417, 2404, 1006>>) @@
    (<<339425, -1184081>> :> <<3974, 0, 2802, 1385>>)

\* Index of a code in Measured
Position(code) == CHOOSE i \in DOMAIN Measured : Measured[i] = code

\* FlightSafetyAssessment.calculate_distance from a point of the route to an
\* airport
calculate_distance(coordinates, airport_code) ==
    great_circle_km[coordinates][Position(airport_code)]

\* dict order of airport_database.items()
database_order == <<"KJFK", "KLAX">>

\* FlightSafetyAssessment.find_nearest_airport: the loop over the database
\* from entry k on.  nearest starts as 'KJFK', min_distance as infinity
\* (here -1).
RECURSIVE nearest_from(_, _, _, _)
nearest_from(coordinates, k, min_distance, nearest_airport) ==
    IF k > Len(database_order) THEN nearest_airport
    ELSE LET airport_code == database_order[k]
             distance     == calculate_distance(coordinates, airport_code)
         IN  IF min_distance = -1 \/ distance < min_distance
             THEN nearest_from(coordinates, k + 1, distance, airport_code)
             ELSE nearest_from(coordinates, k + 1, min_distance, nearest_airport)

find_nearest_airport(coordinates) == nearest_from(coordinates, 1, -1, "KJFK")

\* RealTimeFlightTracker._find_nearest_airport: the entries of major_airports
\* nearest to the points of the model; "" stands for None.
major_airports == Measured

RECURSIVE tracker_nearest_from(_, _, _, _)
tracker_nearest_from(coordinates, k, min_distance, nearest_airport) ==
    IF k > Len(major_airports)
    THEN IF min_distance # -1 /\ min_distance < 500 THEN nearest_airport ELSE ""
    ELSE LET airport_code == major_airports[k]
             distance     == calculate_distance(coordinates, airport_code)
         IN  IF min_distance = -1 \/ distance < min_distance
             THEN tracker_nearest_from(coordinates, k + 1, distance, airport_code)
             ELSE tracker_nearest_from(coordinates, k + 1, min_distance,
                                       nearest_airport)

tracker_find_nearest_airport(coordinates) ==
    tracker_nearest_from(coordinates, 1, -1, "")

\* One flag of analyze_route_weather: f"{i*10}% route - {text}"
RouteFlag(i, text) == [percent |-> i * 10, text |-> text]

\* The body of the loop of analyze_route_weather over the waypoints, from
\* waypoint i on (i = 0 .. 10).  observed[n] is what the n-th call of
\* obtain_current_weather returns.
RECURSIVE hazards_from(_, _, _, _)
hazards_from(waypoints, i, observed, acc) ==
    IF i > 10 THEN Return(acc)
    ELSE LET nearest_airport == find_nearest_airport(waypoints[i + 1])
         IN  IF nearest_airport = ""
             THEN hazards_from(waypoints, i + 1, observed, acc)
             ELSE LET conditions == observed[Len(acc.weather_conditions) + 1]
                      weather_conditions == Append(acc.weather_conditions, conditions)
                      visibility  == Get(conditions, "visibility_statute_miles", 100)
                      wind_speed  == Get(conditions, "wind_speed_knots", 0)
                      temperature == Get(conditions, "temperature_celsius", 10)
                      dewpoint_depression == Get(conditions, "dewpoint_depression", 10)
                      hazards ==
                          acc.hazards
                          \o (IF visibility < 30
                              THEN <<RouteFlag(i, "Low visibility")>> ELSE <<>>)
                          \o (IF wind_speed > 40
                              THEN <<RouteFlag(i, "High winds")>> ELSE <<>>)
                      icing_areas ==
                          acc.icing_areas
                          \o (IF temperature < 0 /\ dewpoint_depression < 5
                              THEN <<RouteFlag(i, "Icing conditions")>> ELSE <<>>)
                  IN  IF wind_speed > 25 /\ i > 0 /\ i > Len(weather_conditions)
                      THEN [raised |-> "IndexError"]
                      ELSE LET prev_wind ==
                                   Get(weather_conditions[i], "wind_speed_knots", 0)
                               sheared == /\ wind_speed > 25
                                          /\ i > 0
                                          /\ Abs(wind_speed - prev_wind) > 15
                           IN  hazards_from(waypoints, i + 1, observed,
                                 [weather_conditions |-> weather_conditions,
                                  hazards            |-> hazards,
                                  icing_areas        |-> icing_areas,
                                  turbulence_areas   |->
                                      acc.turbulence_areas
                                      \o (IF sheared
                                          THEN <<RouteFlag(i, "Wind shear detected")>>
                                          ELSE <<>>)])

\* FlightSafetyAssessment.analyze_route_weather
analyze_route_weather(departure_airport, arrival_airport, observed) ==
    LET dep_coords == get_airport_coordinates(departure_airport)
        arr_coords == get_airport_coordinates(arrival_airport)
        waypoints  == [n \in 1..11 |->
                          interpolate_position(dep_coords, arr_coords, n - 1)]
        looped == hazards_from(waypoints, 0, observed,
                               [weather_conditions |-> <<>>, hazards |-> <<>>,
                                icing_areas |-> <<>>, turbulence_areas |-> <<>>])
    IN  IF looped.raised # "" THEN looped
        ELSE Return(
            [waypoints_analyzed   |-> Len(waypoints),
             weather_hazards      |-> looped.value.hazards,
             overall_conditions   |->
                 IF Len(looped.value.hazards) = 0 THEN "FAVORABLE"
                 ELSE IF Len(looped.value.hazards) <= 2 THEN "CAUTION"
                 ELSE "HAZARDOUS",
             recommended_altitude |->
                 IF looped.value.icing_areas # <<>> THEN "FL410"
                 ELSE IF looped.value.turbulence_areas # <<>> THEN "FL320"
                 ELSE "FL350",
             turbulence_areas     |-> looped.value.turbulence_areas,
             icing_areas          |-> looped.value.icing_areas,
             severe_weather_cells |-> <<>>])

\* calculate_route_distance: whole nautical miles
calculate_route_distance(departure_airport, arrival_airport) ==
    Round(geodesic_nautical(get_airport_coordinates(departure_airport),
                            get_airport_coordinates(arrival_airport)), 100)

\* comprehensive_pre_flight_analysis, step 5: the 'route_analysis' of the
\* report.  analyze_route_weather returns neither 'route_risk_level' nor
\* 'turbulence_forecast' nor 'icing_probability'.
comprehensive_pre_flight_analysis(departure_airport, arrival_airport, observed) ==
    LET route_weather == analyze_route_weather(departure_airport,
                                               arrival_airport, observed)
        route_distance == calculate_route_distance(departure_airport,
                                                   arrival_airport)
    IN  IF route_weather.raised # "" THEN route_weather
        ELSE Return(
            [route_analysis |->
                 [waypoints_analyzed   |-> Max(5, route_distance \div 300),
                  weather_hazards      |-> <<>>,
                  overall_conditions   |-> "FAVORABLE",
                  recommended_altitude |-> "FL350",
                  turbulence_areas     |-> <<>>,
                  icing_areas          |-> <<>>,
                  severe_weather_cells |-> <<>>]])

\* What the provider observed at one point: temperature and dewpoint in
\* deg C, wind in knots, visibility in tenths of a mile.
PointObservations ==
    {[temperature_celsius |-> t, dewpoint_celsius |-> t - spread,
      wind_speed_knots |-> w, visibility_statute_miles |-> 100,
      flight_category |-> "VFR"] :
        t \in {-5, 10}, spread \in {1, 8}, w \in {10, 30, 50}}

\* The observations of the eleven points of a route: three stretches, each
\* of one observation.
RouteObservations ==
    {[n \in 1..11 |-> IF n <= 4 THEN a ELSE IF n <= 7 THEN b ELSE c] :
        a \in PointObservations, b \in PointObservations, c \in PointObservations}

\* What obtain_current_weather returns for an observation
Snapshots(observations) ==
    [n \in DOMAIN observations |->
        process_comprehensive_weather_data(observations[n], EmptyDict, EmptyDict)]

AnalysisCodes == {"KJFK", "KLAX"}

\* The points of the routes of the model
RoutePoints == DOMAIN great_circle_km

AnalyzeRouteWeather ==
    /\ routeCall.fn = "none"
    /\ \E dep \in AnalysisCodes, arr \in AnalysisCodes, obs \in RouteObservations :
        /\ dep # arr
        /\ routeCall' = [fn |-> "analyze_route_weather", departure |-> dep,
                         arrival |-> arr, observations |-> obs]
        /\ routeRet' = analyze_route_weather(dep, arr, Snapshots(obs))
    /\ UNCHANGED exceptRoute

ComprehensivePreFlightAnalysis ==
    /\ routeCall.fn = "none"
    /\ \E dep \in AnalysisCodes, arr \in AnalysisCodes, obs \in RouteObservations :
        /\ dep # arr
        /\ routeCall' = [fn |-> "comprehensive_pre_flight_analysis",
                         departure |-> dep, arrival |-> arr,
                         observations |-> obs]
        /\ routeRet' = comprehensive_pre_flight_analysis(dep, arr, Snapshots(obs))
    /\ UNCHANGED exceptRoute

FindNearestAirport ==
    /\ routeCall.fn = "none"
    /\ \E coordinates \in RoutePoints :
        /\ routeCall' = [fn |-> "find_nearest_airport",
                         coordinates |-> coordinates]
        /\ routeRet' = Return(find_nearest_airport(coordinates))
    /\ UNCHANGED exceptRoute

TrackerFindNearestAirport ==
    /\ routeCall.fn = "none"
    /\ \E coordinates \in RoutePoints :
        /\ routeCall' = [fn |-> "_find_nearest_airport",
                         coordinates |-> coordinates]
        /\ routeRet' = Return(tracker_find_nearest_airport(coordinates))
    /\ UNCHANGED exceptRoute

RouteWeatherNext ==
    \/ AnalyzeRouteWeather
    \/ ComprehensivePreFlightAnalysis
    \/ FindNearestAirport
    \/ TrackerFindNearestAirport

SpecRouteWeather == Init /\ [][RouteWeatherNext]_vars


---------------------------------------------------------------------------
(* C23 *)

\* An analysis of the weather along a route was returned
RouteWeatherReturned(fns) ==
    /\ routeCall.fn \in fns
    /\ routeRet.raised = ""

\* What analyze_route_weather found for the route of the call
FoundAlongRoute == analyze_route_weather(routeCall.departure, routeCall.arrival, Snapshots(routeCall.observations)).value

\* The altitude the flags call for
AltitudeFor(icing_areas, turbulence_areas) ==
    IF icing_areas # <<>> THEN "FL410"
    ELSE IF turbulence_areas # <<>> THEN "FL320"
    ELSE "FL350"

\* The recommended cruise altitude the call reports
ReportedAltitude ==
    IF routeCall.fn = "comprehensive_pre_flight_analysis"
    THEN routeRet.value.route_analysis.recommended_altitude
    ELSE routeRet.value.recommended_altitude

\* C23: the recommended cruise altitude reported for a route is FL410 if
\* the analysis of the route raised an icing flag, else FL320 if it raised a
\* turbulence flag, else FL350.
C23_RecommendedAltitude ==
    RouteWeatherReturned({"analyze_route_weather", "comprehensive_pre_flight_analysis"}) =>
        ReportedAltitude = AltitudeFor(FoundAlongRoute.icing_areas,
                                       FoundAlongRoute.turbulence_areas)

\* The same for what analyze_route_weather itself returns
AnalysisAltitude ==
    RouteWeatherReturned({"analyze_route_weather"}) =>
        routeRet.value.recommended_altitude
            = AltitudeFor(routeRet.value.icing_areas,
                          routeRet.value.turbulence_areas)

\* analyze_route_weather recommends FL320 somewhere
AnalysisRecommendsFL320 ==
    /\ RouteWeatherReturned({"analyze_route_weather"})
    /\ routeRet.value.recommended_altitude = "FL320"


---------------------------------------------------------------------------
(* C24 *)

\* The percentages of the route at which a flag of the list was raised
FlaggedAt(flags) == {flags[k].percent : k \in DOMAIN flags}

\* The observation of route point i (i = 0 .. 10) of the call
ObservedAt(i) == routeCall.observations[i + 1]

\* Below freezing with less than 5 degrees between temperature and dewpoint
IcingConditions(observation) ==
    /\ observation.temperature_celsius < 0
    /\ observation.temperature_celsius - observation.dewpoint_celsius < 5

\* C24: at every sampled route point an icing-area flag is raised exactly
\* when the temperature observed there is below 0 C and less than 5 degrees
\* above the dewpoint.
C24_IcingFlagged ==
    RouteWeatherReturned({"analyze_route_weather"}) =>
        \A i \in 0..10 :
            (i * 10 \in FlaggedAt(routeRet.value.icing_areas))
                <=> IcingConditions(ObservedAt(i))

\* No snapshot obtain_current_weather builds holds 'dewpoint_depression':
\* no icing flag is raised
NoIcingFlag ==
    RouteWeatherReturned({"analyze_route_weather"}) =>
        routeRet.value.icing_areas = <<>>


---------------------------------------------------------------------------
(* C25 *)

\* The wind speed at route point i differs from that at the point before by
\* more than 15 kt
WindShear(i) ==
    Abs(ObservedAt(i).wind_speed_knots - ObservedAt(i - 1).wind_speed_knots) > 15

\* C25: at every sampled route point after the first a turbulence /
\* wind-shear flag is raised whenever, and only when, its wind speed differs
\* from that of the previous sampled point by more than 15 kt.
C25_WindShearFlagged ==
    RouteWeatherReturned({"analyze_route_weather"}) =>
        \A i \in 1..10 :
            (i * 10 \in FlaggedAt(routeRet.value.turbulence_areas))
                <=> WindShear(i)

\* The flag is raised only when the difference exceeds 15 kt, and whenever
\* it does at a point whose own wind is above 25 kt
FlaggedAbove25 ==
    RouteWeatherReturned({"analyze_route_weather"}) =>
        \A i \in 1..10 :
            (i * 10 \in FlaggedAt(routeRet.value.turbulence_areas))
                <=> (WindShear(i) /\ ObservedAt(i).wind_speed_knots > 25)


---------------------------------------------------------------------------
(* C26 *)

\* Distance in km from the point to the nearest of the airports
NearestKm(coordinates, airports) ==
    CHOOSE d \in {calculate_distance(coordinates, airports[k]) : k \in DOMAIN airports} :
        \A k \in DOMAIN airports : d <= calculate_distance(coordinates, airports[k])

\* The point has no known airport within 500 km
Unserved(coordinates, airports) == NearestKm(coordinates, airports) > 500

\* Route point i (i = 0 .. 10) of the analysed route
RoutePoint(i) ==
    interpolate_position(get_airport_coordinates(routeCall.departure),
                         get_airport_coordinates(routeCall.arrival), i)

\* C26: a sampled point whose nearest known airport is farther than 500 km
\* is given no airport, and no hazard or flag is raised for it from any
\* airport's snapshot.
C26_UnservedPointSkipped ==
    /\ RouteWeatherReturned({"find_nearest_airport"}) =>
           (Unserved(routeCall.coordinates, database_order) => routeRet.value = "")
    /\ RouteWeatherReturned({"_find_nearest_airport"}) =>
           (Unserved(routeCall.coordinates, major_airports) => routeRet.value = "")
    /\ RouteWeatherReturned({"analyze_route_weather"}) =>
           \A i \in 0..10 :
               Unserved(RoutePoint(i), database_order) =>
                   i * 10 \notin FlaggedAt(routeRet.value.weather_hazards)
                                   \cup FlaggedAt(routeRet.value.turbulence_areas)
                                   \cup FlaggedAt(routeRet.value.icing_areas)

\* RealTimeFlightTracker._find_nearest_airport gives None beyond 500 km and
\* an airport within 500 km
TrackerSkipsUnserved ==
    RouteWeatherReturned({"_find_nearest_airport"}) =>
        (routeRet.value = "" <=> NearestKm(routeCall.coordinates, major_airports) >= 500)

\* The tracker was asked for a point without an airport within 500 km
TrackerAskedUnserved ==
    /\ RouteWeatherReturned({"_find_nearest_airport"})
    /\ Unserved(routeCall.coordinates, major_airports)


---------------------------------------------------------------------------
(* flight_safety_system.py: the altitude profile of the waypoints
   (SpecWaypoints) *)

\* Longest flight time in minutes of a call of _generate_flight_waypoints
MaxFlightMinutes == 659

\* The waypoints <<i, num_waypoints>> before the last, for num_waypoints up
\* to 22, at which the double arithmetic of
\* 35000 - 33000 * ((fraction - 0.85) / 0.15) ends just under the integer
\* that the exact value is.
JustUnder == {<<7, 8>>, <<9, 10>>, <<14, 16>>, <<15, 16>>, <<18, 20>>, <<19, 22>>, <<21, 22>>}

\* altitude_feet of waypoint i of num_waypoints: int(altitude).  In doubles
\* 1.0 - 0.85 is 0.15000000000000002, so that the altitude of the last
\* waypoint (fraction 1.0) is 1999.99..., and int() gives 1999.
altitude_feet(i, num_waypoints) ==
    IF 100 * i < 15 * num_waypoints
    THEN (6000 * num_waypoints + 700000 * i) \div (3 * num_waypoints)
    ELSE IF 100 * i > 85 * num_waypoints
    THEN LET exact == (35000 * num_waypoints
                         - 2200 * (100 * i - 85 * num_waypoints))
                        \div num_waypoints
         IN  IF i = num_waypoints \/ <<i, num_waypoints>> \in JustUnder
             THEN exact - 1 ELSE exact
    ELSE 35000

\* _generate_flight_waypoints with the altitude_feet of every waypoint
flight_waypoints_with_altitude(dep_coords, arr_coords, flight_time_minutes) ==
    LET waypoints == generate_flight_waypoints(dep_coords, arr_coords,
                                               flight_time_minutes, 1)
    IN  [k \in DOMAIN waypoints |->
            [sequence            |-> waypoints[k].sequence,
             latitude            |-> waypoints[k].latitude,
             longitude           |-> waypoints[k].longitude,
             altitude_feet       |-> altitude_feet(k - 1, Len(waypoints) - 1),
             time_offset_minutes |-> waypoints[k].time_offset_minutes,
             phase               |-> waypoints[k].phase]]

GenerateFlightWaypoints ==
    /\ routeCall.fn = "none"
    /\ \E flight_time_minutes \in 0..MaxFlightMinutes :
        /\ routeCall' = [fn |-> "_generate_flight_waypoints",
                         flight_time_minutes |-> flight_time_minutes]
        /\ routeRet' = flight_waypoints_with_altitude(
                           tracker_get_airport_coordinates("KJFK"),
                           tracker_get_airport_coordinates("KLAX"),
                           flight_time_minutes)
    /\ UNCHANGED exceptRoute

WaypointsNext == GenerateFlightWaypoints

SpecWaypoints == Init /\ [][WaypointsNext]_vars

---------------------------------------------------------------------------
(* C27 *)

\* Waypoints were generated
WaypointsGenerated == routeCall.fn = "_generate_flight_waypoints"

\* Waypoint k of the call is at fraction num / den of the route
FractionNum(k) == k - 1
FractionDen == Len(routeRet) - 1

\* round-down of the linear climb from 2,000 ft at fraction 0 to 35,000 ft
\* at fraction 0.15
LinearClimb(num, den) == 2000 + (33000 * 100 * num) \div (15 * den)

\* round-down of the linear descent from 35,000 ft at fraction 0.85 to
\* 2,000 ft at fraction 1
LinearDescent(num, den) == 35000 - (33000 * (100 * num - 85 * den)) \div (15 * den)

\* C27: the altitude of a waypoint at fraction f climbs linearly from 2,000
\* ft to 35,000 ft for f < 0.15, is 35,000 ft for 0.15 <= f <= 0.85 and
\* descends linearly to 2,000 ft for f > 0.85 (to the foot); no waypoint is
\* above 35,000 ft or below 2,000 ft.
C27_AltitudeProfile ==
    WaypointsGenerated =>
        \A k \in DOMAIN routeRet :
            LET altitude == routeRet[k].altitude_feet
                num      == FractionNum(k)
            IN  /\ altitude >= 2000
                /\ altitude <= 35000
                /\ 100 * num < 15 * FractionDen
                     => Abs(altitude - LinearClimb(num, FractionDen)) <= 1
                /\ 100 * num > 85 * FractionDen
                     => Abs(altitude - LinearDescent(num, FractionDen)) <= 1
                /\ (100 * num >= 15 * FractionDen /\ 100 * num <= 85 * FractionDen)
                     => altitude = 35000

\* Cruise is at 35,000 ft and the descent is linear from 35,000 ft to within
\* a foot of 2,000 ft
CruiseAndDescent ==
    WaypointsGenerated =>
        \A k \in DOMAIN routeRet :
            LET altitude == routeRet[k].altitude_feet
                num      == FractionNum(k)
            IN  /\ 100 * num > 85 * FractionDen
                     => /\ Abs(altitude - LinearDescent(num, FractionDen)) <= 1
                        /\ altitude >= 1999
                /\ (100 * num >= 15 * FractionDen /\ 100 * num <= 85 * FractionDen)
                     => altitude = 35000

\* The code's climb: 2000 + 35000 * f / 0.15, which reaches 37,000 ft at
\* f = 0.15
ClimbTo37000 ==
    WaypointsGenerated =>
        \A k \in DOMAIN routeRet :
            100 * FractionNum(k) < 15 * FractionDen
                => routeRet[k].altitude_feet
                     = 2000 + (35000 * 100 * FractionNum(k)) \div (15 * FractionDen)


---------------------------------------------------------------------------
(* Two flights of one tracker (SpecTwoFlights) *)

\* start_real_time_monitoring called again while the tracker holds one flight
StartRealTimeMonitoringAgain ==
    /\ Len(records) = 1
    /\ \E pair \in TrackedPairs, age \in DepartureAges :
         LET flight_plan == calculate_flight_duration(pair[1], pair[2],
                                                      now - age, "B737")
             flight_id   == <<flight_plan.departure_airport,
                              flight_plan.arrival_airport, now>>
         IN  /\ records' = Append(records,
                    [flight_plan     |-> flight_plan,
                     start_time      |-> now,
                     current_status  |-> "monitoring",
                     weather_updates |-> <<>>,
                     last_update     |-> now])
             /\ active_flights' = (flight_id :> (Len(records) + 1))
                                    @@ active_flights
             /\ pc' = Append(pc, "loop")
             /\ sleep_until' = Append(sleep_until, 0)
    /\ UNCHANGED <<now, exceptTracker>>

TwoFlightsNext ==
    \/ StartRealTimeMonitoring
    \/ StartRealTimeMonitoringAgain
    \/ LoopTest
    \/ LoopComplete
    \/ LoopPoll
    \/ Wake
    \/ Tick

SpecTwoFlights == Init /\ [][TwoFlightsNext]_vars

---------------------------------------------------------------------------
(* C28 *)

\* The flight ids under which get_flight_status finds record r
IdsOf(r) == {flight_id \in DOMAIN active_flights : active_flights[flight_id] = r}

\* C28: every start creates a record of its own under an id of its own:
\* each record that was created, with its status, weather updates and
\* alerts and with the thread that writes to it, is the record a status
\* query finds under one flight id, and no two records share an id.
C28_OneRecordPerStart ==
    /\ \A r \in DOMAIN records : IdsOf(r) # {}
    /\ Cardinality(DOMAIN active_flights) = Len(records)

\* Flights started in different seconds have ids and records of their own
StartedInDifferentSeconds ==
    (Len(records) = 2 /\ records[1].start_time # records[2].start_time) =>
        /\ \A r \in DOMAIN records : IdsOf(r) # {}
        /\ Cardinality(DOMAIN active_flights) = 2

\* Two flights were started in different seconds
TwoStartedApart ==
    /\ Len(records) = 2
    /\ records[1].start_time # records[2].start_time


---------------------------------------------------------------------------
(* aviflux_ultimate_backend.py: GET /api/weather/{airport_code}
   (SpecGetWeather) *)

\* get_multi_source_weather, lines 279-281: the results of the loop, keyed by
\* airport code, are returned as they are only when they hold several
\* airports; the result for one airport is that airport's dict itself.
multi_source_result(results) ==
    IF Cardinality(DOMAIN results) = 1
    THEN results[CHOOSE airport_code \in DOMAIN results : TRUE]
    ELSE results

\* str(HTTPException(status_code=404, detail=...)) of the else branch
WeatherNotFound(airport_code) == <<404, "Weather data not found for", airport_code>>

\* get_weather(airport_code): ultimate_system is whether the module's
\* ultimate_system was loaded and results is what the loop of
\* get_multi_source_weather([airport_code]) collected.  The HTTPException of
\* the else branch is raised inside the try and caught by its
\* `except Exception`.
get_weather(airport_code, ultimate_system, results, timestamp) ==
    IF ~ultimate_system
    THEN Return([success   |-> TRUE,
                 airport   |-> upper(airport_code),
                 weather   |-> [temperature |-> 225, wind_speed |-> 12,
                                wind_direction |-> 270, conditions |-> "Clear",
                                demo |-> TRUE],
                 timestamp |-> timestamp,
                 source    |-> "Demo Mode - Ultimate Aviation System not loaded"])
    ELSE LET weather_data == multi_source_result(results)
         IN  IF upper(airport_code) \in DOMAIN weather_data
             THEN LET airport_weather == weather_data[upper(airport_code)]
                  IN  Return([success   |-> TRUE,
                              airport   |-> upper(airport_code),
                              weather   |->
                                  [temperature     |-> Get(airport_weather, "temperature_celsius", None),
                                   wind_speed      |-> Get(airport_weather, "wind_speed_knots", None),
                                   wind_direction  |-> Get(airport_weather, "wind_direction_degrees", None),
                                   conditions      |-> Get(airport_weather, "weather_conditions", "Unknown"),
                                   visibility      |-> Get(airport_weather, "visibility_miles", None),
                                   flight_category |-> Get(airport_weather, "flight_category", None),
                                   ml_predictions  |-> Get(airport_weather, "ml_predictions", EmptyDict),
                                   demo            |-> FALSE],
                              timestamp |-> timestamp,
                              source    |-> "Ultimate Aviation System with ML Models",
                              data_sources |-> Get(airport_weather, "sources", <<>>)])
             ELSE Return([success   |-> FALSE,
                          error     |-> WeatherNotFound(airport_code),
                          airport   |-> upper(airport_code),
                          timestamp |-> timestamp])

\* The handler answers.  Without ultimate_system it answers at once; with it,
\* the handler has called get_multi_source_weather([airport_code]), whose
\* loop ran once for the code and stored weather_data under it (line 277).
GetWeather ==
    /\ routeCall.fn = "none"
    /\ \/ /\ msw.pc = "idle"
          /\ \E airport_code \in AggregateCodes :
                /\ routeCall' = [fn |-> "get_weather", airport_code |-> airport_code,
                                 ultimate_system |-> FALSE]
                /\ routeRet' = get_weather(airport_code, FALSE, EmptyDict, now)
       \/ /\ msw.pc = "done"
          /\ LET airport_code == mswRet.airport_code
             IN  /\ routeCall' = [fn |-> "get_weather", airport_code |-> airport_code,
                                  ultimate_system |-> TRUE]
                 /\ routeRet' = get_weather(airport_code, TRUE,
                                            (airport_code :> mswRet), now)
    /\ UNCHANGED <<scoreVars, now, trackerVars, monitorVars, aggregateVars>>

GetWeatherNext ==
    \/ GetMultiSourceWeather
    \/ IssueFetch
    \/ ReturnMetar
    \/ ReturnTaf
    \/ ReturnPirep
    \/ ReturnSigmet
    \/ FinishAggregate
    \/ GetWeather

SpecGetWeather == Init /\ [][GetWeatherNext]_vars

---------------------------------------------------------------------------
(* C29 *)

\* get_weather answered a request made with ultimate_system loaded, after
\* the aggregator returned the snapshot of the requested airport
AnsweredFromAggregator ==
    /\ routeCall.fn = "get_weather"
    /\ routeCall.ultimate_system
    /\ routeRet.raised = ""
    /\ mswRet # EmptyDict
    /\ mswRet.airport_code = routeCall.airport_code

\* C29: with the weather system loaded and the aggregator's snapshot for the
\* requested airport produced, GET /api/weather/{airport_code} answers
\* success=true with the fields of that snapshot.
C29_WeatherFound ==
    AnsweredFromAggregator =>
        /\ routeRet.value.success
        /\ routeRet.value.weather.temperature = Get(mswRet, "temperature_celsius", None)
        /\ routeRet.value.weather.wind_speed = Get(mswRet, "wind_speed_knots", None)
        /\ routeRet.value.weather.flight_category = Get(mswRet, "flight_category", None)
        /\ routeRet.value.data_sources = mswRet.sources

\* With the system loaded the answer is always the caught 404
LoadedAnswersNotFound ==
    AnsweredFromAggregator =>
        /\ ~routeRet.value.success
        /\ routeRet.value.error = WeatherNotFound(routeCall.airport_code)

\* Without the system the demo answer is given
DemoAnswer ==
    (routeCall.fn = "get_weather" /\ ~routeCall.ultimate_system) =>
        /\ routeRet.value.success
        /\ routeRet.value.weather.demo

\* A snapshot with METAR data was returned to the handler and it answered
AnsweredWithMetarSnapshot ==
    /\ AnsweredFromAggregator
    /\ "METAR" \in Range(mswRet.sources)


---------------------------------------------------------------------------
(* services/weather_service.py: WeatherService.generate_weather_briefing
   (SpecBriefing) *)

\* A datetime, to the hour: day number and hour of the day
DateTime(day, hour) == [day |-> day, hour |-> hour]

\* datetime.replace(hour=hour): ValueError unless hour is in 0..23
replace_hour(t, hour) ==
    IF hour \in 0..23 THEN Return(DateTime(t.day, hour))
    ELSE [raised |-> "ValueError", message |-> "hour must be in 0..23"]

\* t + timedelta(hours=n)
PlusHours(t, n) == DateTime(t.day + (t.hour + n) \div 24, (t.hour + n) % 24)

\* len(airport) of the codes used here
CodeLength(airport) == IF airport = "JFK" THEN 3 ELSE 4

\* _extract_summary
extract_summary(briefing_result) ==
    IF briefing_result = EmptyDict THEN "No weather data available"
    ELSE IF "executive_summary" \in DOMAIN briefing_result
    THEN briefing_result.executive_summary
    ELSE "Weather briefing generated - see detailed data for complete information"

\* _parse_risk_assessment (score and category)
parse_risk_assessment(briefing_result) ==
    LET risk_data == Get(briefing_result, "risk_assessment", EmptyDict)
    IN  [overall_risk_score |-> Get(risk_data, "risk_score", 50),
         risk_category      |-> Get(risk_data, "risk_category", "MODERATE")]

\* The response of the except branch, lines 114-136
briefing_failed(request, message, utcnow) ==
    [success                   |-> FALSE,
     message                   |-> <<"Failed to generate weather briefing: ", message>>,
     generated_at              |-> utcnow,
     route_type                |-> request.route_type,
     airports                  |-> request.airports,
     executive_summary         |-> "",
     risk_assessment           |-> [overall_risk_score |-> 100,
                                    risk_category |-> "UNKNOWN"],
     flight_monitoring_enabled |-> FALSE,
     monitoring_id             |-> None,
     last_updated              |-> utcnow,
     valid_until               |-> utcnow]

\* generate_weather_briefing(request): briefing_result is what
\* _run_weather_briefing returned ({} when the briefing raised) and utcnow
\* the time of the call.  The keyword arguments of the response are
\* evaluated before it is built, valid_until among them.
generate_weather_briefing(request, briefing_result, utcnow) ==
    IF Len(request.airports) < 2
    THEN briefing_failed(request, "At least 2 airports required", utcnow)
    ELSE IF Len(request.airports) > 10
    THEN briefing_failed(request, "Maximum 10 airports allowed", utcnow)
    ELSE IF \E i \in DOMAIN request.airports : CodeLength(request.airports[i]) # 4
    THEN briefing_failed(request, "Invalid ICAO code", utcnow)
    ELSE IF briefing_result = EmptyDict
    THEN briefing_failed(request, "Failed to generate weather briefing", utcnow)
    ELSE LET valid_until == replace_hour(utcnow, utcnow.hour + 6)
         IN  IF valid_until.raised # ""
             THEN briefing_failed(request, valid_until.message, utcnow)
             ELSE [success                   |-> TRUE,
                   message                   |-> "Weather briefing generated successfully",
                   generated_at              |-> utcnow,
                   route_type                |-> request.route_type,
                   airports                  |-> request.airports,
                   executive_summary         |-> extract_summary(briefing_result),
                   risk_assessment           |-> parse_risk_assessment(briefing_result),
                   flight_monitoring_enabled |-> request.enable_flight_monitoring,
                   monitoring_id             |-> IF request.enable_flight_monitoring
                                                 THEN <<"MON-", "WB-", utcnow>> ELSE None,
                   last_updated              |-> utcnow,
                   valid_until               |-> valid_until.value]

\* Airport lists of a request: too short, two, three, one with a
\* three-letter code, ten and eleven
RequestAirports ==
    {<<"KJFK">>, <<"KJFK", "KLAX">>, <<"KJFK", "KORD", "KLAX">>, <<"KJFK", "JFK">>,
     [i \in 1..10 |-> IF i % 2 = 1 THEN "KJFK" ELSE "KLAX"],
     [i \in 1..11 |-> IF i % 2 = 1 THEN "KJFK" ELSE "KLAX"]}

\* What _run_weather_briefing can return
BriefingResults ==
    {EmptyDict,
     [executive_summary |-> "GO", risk_assessment |-> [risk_score |-> 20, risk_category |-> "LOW"]],
     [route_info |-> [distance_nm |-> 2146]]}

HoursOfDay == 0..23

GenerateWeatherBriefing ==
    /\ routeCall.fn = "none"
    /\ \E airports \in RequestAirports, enable_flight_monitoring \in BOOLEAN,
          briefing_result \in BriefingResults, hour \in HoursOfDay :
         LET request == [route_type |-> IF Len(airports) = 2 THEN "single"
                                        ELSE "multi_airport",
                         airports   |-> airports,
                         enable_flight_monitoring |-> enable_flight_monitoring]
         IN  /\ routeCall' = [fn |-> "generate_weather_briefing",
                              request |-> request,
                              briefing_result |-> briefing_result,
                              utcnow |-> DateTime(1, hour)]
             /\ routeRet' = generate_weather_briefing(request, briefing_result,
                                                      DateTime(1, hour))
    /\ UNCHANGED <<scoreVars, now, trackerVars, monitorVars, aggregateVars>>

BriefingNext == GenerateWeatherBriefing

SpecBriefing == Init /\ [][BriefingNext]_vars

---------------------------------------------------------------------------
(* C30 *)

\* generate_weather_briefing was called with a valid request and the
\* briefing computation gave a result
ValidBriefingCall ==
    /\ routeCall.fn = "generate_weather_briefing"
    /\ Len(routeCall.request.airports) \in 2..10
    /\ \A i \in DOMAIN routeCall.request.airports :
           CodeLength(routeCall.request.airports[i]) = 4
    /\ routeCall.briefing_result # EmptyDict

\* C30: a valid request whose briefing computation succeeded is answered
\* with success=true and a valid_until six hours after generated_at,
\* whatever the hour of the request.
C30_ValidSixHoursLater ==
    ValidBriefingCall =>
        /\ routeRet.success
        /\ routeRet.valid_until = PlusHours(routeRet.generated_at, 6)

\* Before 18:00 UTC the answer is as stated
ValidBeforeEighteen ==
    (ValidBriefingCall /\ routeCall.utcnow.hour < 18) =>
        /\ routeRet.success
        /\ routeRet.valid_until = PlusHours(routeRet.generated_at, 6)

\* From 18:00 UTC on the request fails, with valid_until = generated_at
FailsFromEighteen ==
    (ValidBriefingCall /\ routeCall.utcnow.hour >= 18) =>
        /\ ~routeRet.success
        /\ routeRet.valid_until = routeRet.generated_at
        /\ routeRet.risk_assessment.risk_category = "UNKNOWN"

\* A valid request of ten airports was answered at 17:00 UTC
TenAirportsAtSeventeen ==
    /\ ValidBriefingCall
    /\ Len(routeCall.request.airports) = 10
    /\ routeCall.utcnow.hour = 17
    /\ routeRet.success

=============================================================================
